---- MODULE Spec2Model ----
(***************************************************************************)
(* A model of the VCD parser of src/src/read.rs: the byte cursor, the      *)
(* tokenizer (read_byte, read_token, read_token_string, read_token_parse,  *)
(* read_command_end, read_string_command), the command decoder             *)
(* (parse_command and the per-kind decoders), the scope builder            *)
(* (parse_scope), the header assembly (parse_header) and the iterator      *)
(* (next).  A byte is a one-character string; a text or token is a         *)
(* sequence of bytes; a number is its canonical sequence of decimal        *)
(* digits.                                                                 *)
(***************************************************************************)
EXTENDS Integers, Sequences, FiniteSets, TLC

VARIABLES
  input,               \* the bytes of the wrapped reader
  srcEnd,              \* what the reader yields after its last byte: "eof" or "ioerr"
  frags,               \* ghost: the pieces the input was written from
  pos,                 \* bytes_iter: index of the next byte to read (1-based)
  simulation_command,  \* Parser.simulation_command: None (<<>>) or Some(k) (<<k>>)
  ret,                 \* the last call: operation, state before it, what it returned
  out,                 \* ghost: the commands yielded by the iterator so far, in order
  lastBE,              \* ghost: the last Begin/End command yielded by any step
  phase,               \* "running", or "aborted" (after a panic)
  tokCap,              \* the capacity of the buffer handed to read_token (token harness)
  onlyNext             \* ghost: no operation but next() has been called so far

vars ==
  <<input, srcEnd, frags, pos, simulation_command, ret, out, lastBE, phase, tokCap, onlyNext>>

-----------------------------------------------------------------------------
(* Bytes *)

Digits == {"0", "1", "2", "3", "4", "5", "6", "7", "8", "9"}

\* A byte that occurs in no well-formed UTF-8 text (0xFF).
BadUtf8Byte == "<FF>"

whitespace_byte(b) == b \in {" ", "\n", "\r", "\t"}

\* char::is_whitespace on the bytes of the model: str::trim also removes
\* the form feed, which the tokenizer does not treat as whitespace.
trim_whitespace(b) == b \in {" ", "\n", "\r", "\t", "\f"}

-----------------------------------------------------------------------------
(* Results and errors *)

None == <<>>
Some(v) == <<v>>

NoErr == [kind |-> "", msg |-> ""]
ParseError(m) == [kind |-> "Parse", msg |-> m]
IoError == [kind |-> "Io", msg |-> "read failed"]

NoVal == [tag |-> "none"]

Ok(v, p) == [st |-> "Ok", val |-> v, err |-> NoErr, pos |-> p]
Err(e, p) == [st |-> "Err", val |-> NoVal, err |-> e, pos |-> p]
\* try!: the failure of an inner call, returned by the caller unchanged
Try(r) == [st |-> r.st, val |-> NoVal, err |-> r.err, pos |-> r.pos]

-----------------------------------------------------------------------------
(* Tokenizer *)

\* let v = e; k        (one evaluation of e, named in k)
Let(v, k(_)) == k(v)

\* let v = try!(r); k  (the failure of r is returned unchanged)
TryLet(r, k(_)) == IF r.st = "Ok" THEN k(r) ELSE Try(r)

\* bytes_iter.next(): Some(Ok(b)), Some(Err(e)) or None
bytes_next(p) ==
  IF p <= Len(input) THEN [st |-> "Ok", val |-> input[p], err |-> NoErr, pos |-> p + 1]
  ELSE IF srcEnd = "ioerr" THEN [st |-> "Err", val |-> NoVal, err |-> IoError, pos |-> p]
  ELSE [st |-> "None", val |-> NoVal, err |-> NoErr, pos |-> p]

read_byte(p) ==
  Let(bytes_next(p), LAMBDA b :
    CASE b.st = "Ok" -> Ok(b.val, b.pos)
      [] b.st = "Err" -> Err(b.err, b.pos)
      [] OTHER -> Err(ParseError("Unexpected EOF"), b.pos))

\* the loop of read_token: buf has cap bytes, tok is buf[..len]
RECURSIVE read_token_loop(_, _, _)
read_token_loop(cap, p, tok) ==
  TryLet(read_byte(p), LAMBDA b :
    IF whitespace_byte(b.val)
    THEN IF Len(tok) > 0 THEN Ok(tok, b.pos) ELSE read_token_loop(cap, b.pos, tok)
    ELSE IF Len(tok) < cap THEN read_token_loop(cap, b.pos, Append(tok, b.val))
    ELSE Err(ParseError("Token too long"), b.pos))

\* a slip: a byte that does not fit the buffer is dropped and reading goes on
RECURSIVE read_token_truncating_loop(_, _, _)
read_token_truncating_loop(cap, p, tok) ==
  TryLet(read_byte(p), LAMBDA b :
    IF whitespace_byte(b.val)
    THEN IF Len(tok) > 0 THEN Ok(tok, b.pos) ELSE read_token_truncating_loop(cap, b.pos, tok)
    ELSE IF Len(tok) < cap THEN read_token_truncating_loop(cap, b.pos, Append(tok, b.val))
    ELSE read_token_truncating_loop(cap, b.pos, tok))

read_token_truncating(cap, p) == read_token_truncating_loop(cap, p, <<>>)

read_token(cap, p) == read_token_loop(cap, p, <<>>)

from_utf8(tok) == \A i \in 1..Len(tok) : tok[i] # BadUtf8Byte

\* from_utf8 / String::from_utf8 under try!
TryUtf8(r) == IF from_utf8(r.val) THEN r ELSE Err(ParseError("Invalid UTF8"), r.pos)

RECURSIVE read_token_string_loop(_, _)
read_token_string_loop(p, r) ==
  TryLet(read_byte(p), LAMBDA b :
    IF whitespace_byte(b.val)
    THEN IF Len(r) > 0 THEN TryUtf8(Ok(r, b.pos)) ELSE read_token_string_loop(b.pos, r)
    ELSE read_token_string_loop(b.pos, Append(r, b.val)))

read_token_string(p) == read_token_string_loop(p, <<>>)

TokEnd == <<"$", "e", "n", "d">>

\* the fixed token buffers: [0; 32], [0; 8], [0; 16], ([0; 8], [0; 8]), [0; 32]
TokenParseCap == 32
CommandEndCap == 8
KeywordCap == 16
TimescaleCap == 8
VectorCap == 32

\* s.parse() under try!: v is T::from_str(s), [ok, val, err]
TryParse(v, p) == IF v.ok THEN Ok(v.val, p) ELSE Err(v.err, p)

read_command_end(p) ==
  TryLet(read_token(CommandEndCap, p), LAMBDA tok :
    IF tok.val = TokEnd THEN Ok(NoVal, tok.pos)
    ELSE Err(ParseError("Expected $end"), tok.pos))

ends_with(r, s) ==
  /\ Len(r) >= Len(s)
  /\ SubSeq(r, Len(r) - Len(s) + 1, Len(r)) = s

RECURSIVE trim_start(_)
trim_start(s) ==
  IF s # <<>> /\ trim_whitespace(Head(s)) THEN trim_start(Tail(s)) ELSE s

RECURSIVE trim_end(_)
trim_end(s) ==
  IF s # <<>> /\ trim_whitespace(s[Len(s)]) THEN trim_end(SubSeq(s, 1, Len(s) - 1)) ELSE s

trim(s) == trim_end(trim_start(s))

RECURSIVE read_string_command_loop(_, _)
read_string_command_loop(p, r) ==
  TryLet(read_byte(p), LAMBDA b :
    IF ends_with(Append(r, b.val), TokEnd)
    THEN TryLet(TryUtf8(Ok(SubSeq(r, 1, Len(r) - 3), b.pos)), LAMBDA s :
           Ok(trim(s.val), s.pos))
    ELSE read_string_command_loop(b.pos, Append(r, b.val)))

\* a slip: the text is returned as accumulated, white space at its ends included
RECURSIVE read_string_command_untrimmed_loop(_, _)
read_string_command_untrimmed_loop(p, r) ==
  TryLet(read_byte(p), LAMBDA b :
    IF ends_with(Append(r, b.val), TokEnd)
    THEN TryUtf8(Ok(SubSeq(r, 1, Len(r) - 3), b.pos))
    ELSE read_string_command_untrimmed_loop(b.pos, Append(r, b.val)))

read_string_command_untrimmed(p) == read_string_command_untrimmed_loop(p, <<>>)

read_string_command(p) == read_string_command_loop(p, <<>>)

-----------------------------------------------------------------------------
(* FromStr of the value types.  The integer and float parsers are the      *)
(* standard library's; the enumerations, Value and IdCode are declared     *)
(* outside read.rs.  Each returns [ok, val, err].                          *)

POk(v) == [ok |-> TRUE, val |-> v, err |-> NoErr]
PErr(m) == [ok |-> FALSE, val |-> NoVal, err |-> ParseError(m)]

DigitSeq == <<"0", "1", "2", "3", "4", "5", "6", "7", "8", "9">>
DigitIndex(d) == CHOOSE i \in 1..10 : DigitSeq[i] = d

RECURSIVE strip_zeros(_)
strip_zeros(ds) == IF Len(ds) > 1 /\ Head(ds) = "0" THEN strip_zeros(Tail(ds)) ELSE ds

RECURSIVE digits_leq(_, _)
digits_leq(a, b) ==
  IF a = <<>> THEN TRUE
  ELSE IF Head(a) = Head(b) THEN digits_leq(Tail(a), Tail(b))
  ELSE DigitIndex(Head(a)) < DigitIndex(Head(b))

\* a <= b for canonical digit sequences
number_leq(a, b) == Len(a) < Len(b) \/ (Len(a) = Len(b) /\ digits_leq(a, b))

U32Max == <<"4", "2", "9", "4", "9", "6", "7", "2", "9", "5">>
U64Max == <<"1", "8", "4", "4", "6", "7", "4", "4", "0", "7",
            "3", "7", "0", "9", "5", "5", "1", "6", "1", "5">>

\* <unsigned>::from_str: an optional "+", then one or more digits, in range
parse_uint(s, max) ==
  LET body == IF s # <<>> /\ Head(s) = "+" THEN Tail(s) ELSE s IN
  IF body = <<>> \/ \E i \in 1..Len(body) : body[i] \notin Digits
  THEN PErr("Invalid number")
  ELSE IF number_leq(strip_zeros(body), max) THEN POk(strip_zeros(body))
  ELSE PErr("Invalid number")

parse_u32(s) == parse_uint(s, U32Max)
parse_u64(s) == parse_uint(s, U64Max)

\* f64::from_str on plain decimal notation: [+-]digits[.digits], at least one
\* digit; the value is kept as [neg, int, frac].  Exponents, inf and nan are
\* not among the bytes of the model's inputs.
RECURSIVE strip_trailing_zeros(_)
strip_trailing_zeros(ds) ==
  IF ds # <<>> /\ ds[Len(ds)] = "0" THEN strip_trailing_zeros(SubSeq(ds, 1, Len(ds) - 1)) ELSE ds

parse_f64(s) ==
  LET signed == s # <<>> /\ Head(s) \in {"+", "-"}
      body == IF signed THEN Tail(s) ELSE s
      dots == {i \in 1..Len(body) : body[i] = "."}
      dot == IF dots = {} THEN Len(body) + 1 ELSE CHOOSE i \in dots : TRUE
      ip == SubSeq(body, 1, dot - 1)
      fp == SubSeq(body, dot + 1, Len(body))
  IN
  IF \/ Cardinality(dots) > 1
     \/ \E i \in 1..Len(body) : body[i] \notin Digits \cup {"."}
     \/ Len(ip) + Len(fp) = 0
  THEN PErr("Invalid number")
  ELSE POk([neg |-> signed /\ Head(s) = "-",
            int |-> IF ip = <<>> THEN <<"0">> ELSE strip_zeros(ip),
            frac |-> strip_trailing_zeros(fp)])

TimescaleUnits ==
  { <<<<"s">>, "S">>, <<<<"m", "s">>, "MS">>, <<<<"u", "s">>, "US">>,
    <<<<"n", "s">>, "NS">>, <<<<"p", "s">>, "PS">>, <<<<"f", "s">>, "FS">> }

ScopeTypes ==
  { <<<<"m", "o", "d", "u", "l", "e">>, "Module">>,
    <<<<"t", "a", "s", "k">>, "Task">>,
    <<<<"f", "u", "n", "c", "t", "i", "o", "n">>, "Function">> }

VarTypes ==
  { <<<<"w", "i", "r", "e">>, "Wire">>,
    <<<<"r", "e", "g">>, "Reg">>,
    <<<<"p", "a", "r", "a", "m", "e", "t", "e", "r">>, "Parameter">> }

parse_enum(s, table) ==
  IF \E e \in table : e[1] = s
  THEN POk((CHOOSE e \in table : e[1] = s)[2])
  ELSE PErr("Invalid keyword")

parse_timescale_unit(s) == parse_enum(s, TimescaleUnits)
parse_scope_type(s) == parse_enum(s, ScopeTypes)
parse_var_type(s) == parse_enum(s, VarTypes)

\* Value::parse
Value_parse(b) ==
  CASE b = "0" -> POk("V0")
    [] b = "1" -> POk("V1")
    [] b \in {"x", "X"} -> POk("X")
    [] b \in {"z", "Z"} -> POk("Z")
    [] OTHER -> PErr("Invalid value")

\* the printable bytes '!' .. '~', in order (three of them by name)
IdChars ==
  <<"!", "<quote>", "#", "$", "%", "&", "'", "(", ")", "*", "+", ",", "-", ".", "/",
    "0", "1", "2", "3", "4", "5", "6", "7", "8", "9", ":", ";", "<", "=", ">", "?", "@",
    "A", "B", "C", "D", "E", "F", "G", "H", "I", "J", "K", "L", "M",
    "N", "O", "P", "Q", "R", "S", "T", "U", "V", "W", "X", "Y", "Z",
    "[", "<backslash>", "]", "^", "_", "<backquote>",
    "a", "b", "c", "d", "e", "f", "g", "h", "i", "j", "k", "l", "m",
    "n", "o", "p", "q", "r", "s", "t", "u", "v", "w", "x", "y", "z",
    "{", "|", "}", "~">>

IdCharCode(b) == (CHOOSE i \in 1..Len(IdChars) : IdChars[i] = b) - 1

\* IdCode::from_str: every byte printable; IdCode(2) for "#" is <<2>> here
parse_id_code(s) ==
  IF s = <<>> \/ \E i \in 1..Len(s) : \A j \in 1..Len(IdChars) : IdChars[j] # s[i]
  THEN PErr("Invalid id code")
  ELSE POk([i \in 1..Len(s) |-> IdCharCode(s[i])])

\* T::from_str(s) for the types T that read_token_parse is called with
from_str(T, s) ==
  CASE T = "u32" -> parse_u32(s)
    [] T = "u64" -> parse_u64(s)
    [] T = "f64" -> parse_f64(s)
    [] T = "ScopeType" -> parse_scope_type(s)
    [] T = "VarType" -> parse_var_type(s)
    [] T = "IdCode" -> parse_id_code(s)

\* read_token_parse::<T>
read_token_parse(p, T) ==
  TryLet(read_token(TokenParseCap, p), LAMBDA tok :
    IF tok.val = TokEnd THEN Err(ParseError("Unexpected $end"), tok.pos)
    ELSE TryLet(TryUtf8(tok), LAMBDA s : TryParse(from_str(T, s.val), s.pos)))

-----------------------------------------------------------------------------
(* Commands *)

Comment(s) == [tag |-> "Comment", text |-> s]
Date(s) == [tag |-> "Date", text |-> s]
Version(s) == [tag |-> "Version", text |-> s]
Timescale(n, u) == [tag |-> "Timescale", n |-> n, unit |-> u]
ScopeDef(tp, id) == [tag |-> "ScopeDef", scope_type |-> tp, identifier |-> id]
Upscope == [tag |-> "Upscope"]
VarDef(tp, size, code, r) ==
  [tag |-> "VarDef", var_type |-> tp, size |-> size, code |-> code, reference |-> r]
Enddefinitions == [tag |-> "Enddefinitions"]
Begin(c) == [tag |-> "Begin", c |-> c]
End(c) == [tag |-> "End", c |-> c]
Timestamp(t) == [tag |-> "Timestamp", t |-> t]
ChangeScalar(id, v) == [tag |-> "ChangeScalar", id |-> id, v |-> v]
ChangeVector(id, v) == [tag |-> "ChangeVector", id |-> id, bits |-> v]
ChangeReal(id, v) == [tag |-> "ChangeReal", id |-> id, real |-> v]
ChangeString(id, v) == [tag |-> "ChangeString", id |-> id, str |-> v]

SimulationCommands == {"Dumpall", "Dumpoff", "Dumpon", "Dumpvars"}

\* a command decoder's return value and the simulation_command it leaves
WithSim(r, sim) == [st |-> r.st, val |-> r.val, err |-> r.err, pos |-> r.pos, sim |-> sim]

-----------------------------------------------------------------------------
(* Command decoder *)

KwComment == <<"c", "o", "m", "m", "e", "n", "t">>
KwDate == <<"d", "a", "t", "e">>
KwVersion == <<"v", "e", "r", "s", "i", "o", "n">>
KwTimescale == <<"t", "i", "m", "e", "s", "c", "a", "l", "e">>
KwScope == <<"s", "c", "o", "p", "e">>
KwUpscope == <<"u", "p", "s", "c", "o", "p", "e">>
KwVar == <<"v", "a", "r">>
KwEnddefinitions == <<"e", "n", "d", "d", "e", "f", "i", "n", "i", "t", "i", "o", "n", "s">>
KwDumpall == <<"d", "u", "m", "p", "a", "l", "l">>
KwDumpoff == <<"d", "u", "m", "p", "o", "f", "f">>
KwDumpon == <<"d", "u", "m", "p", "o", "n">>
KwDumpvars == <<"d", "u", "m", "p", "v", "a", "r", "s">>
KwEnd == <<"e", "n", "d">>

Min(S) == CHOOSE x \in S : \A y \in S : x <= y

\* tok.find(|c| !c.is_numeric()): the index of the first non-digit, 0 for None
find_non_numeric(tok) ==
  IF \E i \in 1..Len(tok) : tok[i] \notin Digits
  THEN Min({i \in 1..Len(tok) : tok[i] \notin Digits})
  ELSE 0

\* a slip: the unit is always read as a word of its own
timescale_split_two_words(tok, idx) ==
  TryLet(read_token(TimescaleCap, tok.pos), LAMBDA tok2 :
    TryLet(TryUtf8(tok2), LAMBDA u : Ok(<<tok.val, u.val>>, u.pos)))

\* (num_str, unit_str) of the "timescale" arm, with the cursor after them
timescale_split(tok, idx) ==
  IF idx # 0
  THEN Ok(<<SubSeq(tok.val, 1, idx - 1), SubSeq(tok.val, idx, Len(tok.val))>>, tok.pos)
  ELSE TryLet(read_token(TimescaleCap, tok.pos), LAMBDA tok2 :
         TryLet(TryUtf8(tok2), LAMBDA u : Ok(<<tok.val, u.val>>, u.pos)))

\* a slip: the number and the unit are parsed before "$end" is required
parse_timescale_checks_first(p) ==
  TryLet(read_token(TimescaleCap, p), LAMBDA tok1 :
    TryLet(TryUtf8(tok1), LAMBDA tok :
      TryLet(timescale_split(tok, find_non_numeric(tok.val)), LAMBDA strs :
        TryLet(TryParse(parse_u32(strs.val[1]), strs.pos), LAMBDA n :
          TryLet(TryParse(parse_timescale_unit(strs.val[2]), strs.pos), LAMBDA unit :
            TryLet(read_command_end(strs.pos), LAMBDA e :
              Ok(Timescale(n.val, unit.val), e.pos)))))))

\* the "timescale" arm of parse_command
parse_timescale(p) ==
  TryLet(read_token(TimescaleCap, p), LAMBDA tok1 :
    TryLet(TryUtf8(tok1), LAMBDA tok :
      TryLet(timescale_split(tok, find_non_numeric(tok.val)), LAMBDA strs :
        TryLet(read_command_end(strs.pos), LAMBDA e :
          TryLet(TryParse(parse_u32(strs.val[1]), e.pos), LAMBDA n :
            TryLet(TryParse(parse_timescale_unit(strs.val[2]), e.pos), LAMBDA unit :
              Ok(Timescale(n.val, unit.val), e.pos)))))))

\* the "scope" arm
parse_scope_def(p) ==
  TryLet(read_token_parse(p, "ScopeType"), LAMBDA scope_type :
    TryLet(read_token_string(scope_type.pos), LAMBDA identifier :
      TryLet(read_command_end(identifier.pos), LAMBDA e :
        Ok(ScopeDef(scope_type.val, identifier.val), e.pos))))

\* the "upscope" and "enddefinitions" arms
end_only_command(p, cmd) ==
  TryLet(read_command_end(p), LAMBDA e : Ok(cmd, e.pos))

\* the "var" arm
parse_var_def(p) ==
  TryLet(read_token_parse(p, "VarType"), LAMBDA var_type :
    TryLet(read_token_parse(var_type.pos, "u32"), LAMBDA size :
      TryLet(read_token_parse(size.pos, "IdCode"), LAMBDA code :
        TryLet(read_token_string(code.pos), LAMBDA reference :
          TryLet(read_command_end(reference.pos), LAMBDA e :
            Ok(VarDef(var_type.val, size.val, code.val, reference.val), e.pos))))))

\* a slip: Begin is yielded but the command is not recorded as open
begin_simulation_command_not_stored(p, c) == WithSim(Ok(Begin(c), p), None)

begin_simulation_command(p, c) == WithSim(Ok(Begin(c), p), Some(c))

\* a slip: the open command is read but not taken
end_simulation_command_not_taken(p, sim) ==
  IF sim # None THEN WithSim(Ok(End(sim[1]), p), sim)
  ELSE WithSim(Err(ParseError("Unmatched $end"), p), sim)

\* the "end" arm: self.simulation_command.take()
end_simulation_command(p, sim) ==
  IF sim # None THEN WithSim(Ok(End(sim[1]), p), None)
  ELSE WithSim(Err(ParseError("Unmatched $end"), p), None)

\* the match on the keyword token; its failure leaves simulation_command alone
match_command(cmd, sim) ==
  IF cmd.st # "Ok" THEN WithSim(Try(cmd), sim)
  ELSE
    CASE cmd.val = KwComment ->
           WithSim(TryLet(read_string_command(cmd.pos),
                          LAMBDA s : Ok(Comment(s.val), s.pos)), sim)
      [] cmd.val = KwDate ->
           WithSim(TryLet(read_string_command(cmd.pos),
                          LAMBDA s : Ok(Date(s.val), s.pos)), sim)
      [] cmd.val = KwVersion ->
           WithSim(TryLet(read_string_command(cmd.pos),
                          LAMBDA s : Ok(Version(s.val), s.pos)), sim)
      [] cmd.val = KwTimescale -> WithSim(parse_timescale(cmd.pos), sim)
      [] cmd.val = KwScope -> WithSim(parse_scope_def(cmd.pos), sim)
      [] cmd.val = KwUpscope -> WithSim(end_only_command(cmd.pos, Upscope), sim)
      [] cmd.val = KwVar -> WithSim(parse_var_def(cmd.pos), sim)
      [] cmd.val = KwEnddefinitions -> WithSim(end_only_command(cmd.pos, Enddefinitions), sim)
      [] cmd.val = KwDumpall -> begin_simulation_command(cmd.pos, "Dumpall")
      [] cmd.val = KwDumpoff -> begin_simulation_command(cmd.pos, "Dumpoff")
      [] cmd.val = KwDumpon -> begin_simulation_command(cmd.pos, "Dumpon")
      [] cmd.val = KwDumpvars -> begin_simulation_command(cmd.pos, "Dumpvars")
      [] cmd.val = KwEnd -> end_simulation_command(cmd.pos, sim)
      [] OTHER -> WithSim(Err(ParseError("Invalid keyword"), cmd.pos), sim)

\* a slip: a command that fails closes the open simulation command
parse_command_resets(p, sim) ==
  Let(match_command(read_token(KeywordCap, p), sim), LAMBDA r :
    IF r.st = "Ok" THEN r ELSE WithSim(r, None))

parse_command(p, sim) == match_command(read_token(KeywordCap, p), sim)

parse_timestamp(p) ==
  TryLet(read_token_parse(p, "u64"), LAMBDA t : Ok(Timestamp(t.val), t.pos))

\* a slip: the value is decoded from the first byte after the dispatch byte
parse_scalar_value_from_next_byte(p, initial) ==
  TryLet(read_token_parse(p, "IdCode"), LAMBDA id :
    TryLet(TryParse(Value_parse(input[p]), id.pos), LAMBDA val :
      Ok(ChangeScalar(id.val, val.val), id.pos)))

parse_scalar(p, initial) ==
  TryLet(read_token_parse(p, "IdCode"), LAMBDA id :
    TryLet(TryParse(Value_parse(initial), id.pos), LAMBDA val :
      Ok(ChangeScalar(id.val, val.val), id.pos)))

\* .iter().cloned().map(Value::parse).collect(): the values, or the first failure
collect_values(tok) ==
  IF \E i \in 1..Len(tok) : ~Value_parse(tok[i]).ok
  THEN Value_parse(tok[Min({i \in 1..Len(tok) : ~Value_parse(tok[i]).ok})])
  ELSE POk([i \in 1..Len(tok) |-> Value_parse(tok[i]).val])

Reverse(s) == [i \in 1..Len(s) |-> s[Len(s) + 1 - i]]

\* a slip: the values are stored least-significant bit first
parse_vector_reversed(p) ==
  TryLet(read_token(VectorCap, p), LAMBDA tok :
    TryLet(TryParse(collect_values(tok.val), tok.pos), LAMBDA val :
      TryLet(read_token_parse(val.pos, "IdCode"), LAMBDA id :
        Ok(ChangeVector(id.val, Reverse(val.val)), id.pos))))

parse_vector(p) ==
  TryLet(read_token(VectorCap, p), LAMBDA tok :
    TryLet(TryParse(collect_values(tok.val), tok.pos), LAMBDA val :
      TryLet(read_token_parse(val.pos, "IdCode"), LAMBDA id :
        Ok(ChangeVector(id.val, val.val), id.pos))))

parse_real(p) ==
  TryLet(read_token_parse(p, "f64"), LAMBDA val :
    TryLet(read_token_parse(val.pos, "IdCode"), LAMBDA id :
      Ok(ChangeReal(id.val, val.val), id.pos)))

parse_string(p) ==
  TryLet(read_token_string(p), LAMBDA val :
    TryLet(read_token_parse(val.pos, "IdCode"), LAMBDA id :
      Ok(ChangeString(id.val, val.val), id.pos)))

-----------------------------------------------------------------------------
(* Iterator.  st is "None" (end of sequence), "Ok", "Err" or "Panic". *)

EndOfSequence(p, sim) == [st |-> "None", val |-> NoVal, err |-> NoErr, pos |-> p, sim |-> sim]
Panic(p, sim) == [st |-> "Panic", val |-> NoVal, err |-> NoErr, pos |-> p, sim |-> sim]

\* a slip: an unknown dispatch byte is reported as a typed error
dispatch_typed_error(b, p, sim) ==
  CASE b = "$" -> parse_command(p, sim)
    [] b = "#" -> WithSim(parse_timestamp(p), sim)
    [] b \in {"0", "1", "z", "Z", "x", "X"} -> WithSim(parse_scalar(p, b), sim)
    [] b \in {"b", "B"} -> WithSim(parse_vector(p), sim)
    [] b \in {"r", "R"} -> WithSim(parse_real(p), sim)
    [] b \in {"s", "S"} -> WithSim(parse_string(p), sim)
    [] OTHER -> WithSim(Err(ParseError("Invalid keyword"), p), sim)

\* the match on the dispatch byte b, already consumed
dispatch(b, p, sim) ==
  CASE b = "$" -> parse_command(p, sim)
    [] b = "#" -> WithSim(parse_timestamp(p), sim)
    [] b \in {"0", "1", "z", "Z", "x", "X"} -> WithSim(parse_scalar(p, b), sim)
    [] b \in {"b", "B"} -> WithSim(parse_vector(p), sim)
    [] b \in {"r", "R"} -> WithSim(parse_real(p), sim)
    [] b \in {"s", "S"} -> WithSim(parse_string(p), sim)
    [] OTHER -> Panic(p, sim)

\* a slip: a whitespace byte ends the sequence
next_stops_at_whitespace(p, sim) ==
  Let(bytes_next(p), LAMBDA b :
    CASE b.st = "None" -> EndOfSequence(b.pos, sim)
      [] b.st = "Err" -> WithSim(Err(b.err, b.pos), sim)
      [] OTHER -> IF whitespace_byte(b.val) THEN EndOfSequence(b.pos, sim)
                  ELSE dispatch(b.val, b.pos, sim))

\* a slip: the end of the input with a simulation command open is a failure
RECURSIVE next_checks_open_command(_, _)
next_checks_open_command(p, sim) ==
  Let(bytes_next(p), LAMBDA b :
    CASE b.st = "None" -> IF sim = None THEN EndOfSequence(b.pos, sim)
                          ELSE WithSim(Err(ParseError("Unexpected EOF"), b.pos), None)
      [] b.st = "Err" -> WithSim(Err(b.err, b.pos), sim)
      [] OTHER -> IF whitespace_byte(b.val) THEN next_checks_open_command(b.pos, sim)
                  ELSE dispatch(b.val, b.pos, sim))

RECURSIVE next(_, _)
next(p, sim) ==
  Let(bytes_next(p), LAMBDA b :
    CASE b.st = "None" -> EndOfSequence(b.pos, sim)
      [] b.st = "Err" -> WithSim(Err(b.err, b.pos), sim)
      [] OTHER -> IF whitespace_byte(b.val) THEN next(b.pos, sim)
                  ELSE dispatch(b.val, b.pos, sim))

-----------------------------------------------------------------------------
(* Scope builder and header assembly.  Their results also carry log, the   *)
(* commands their inner calls of next() yielded (a ghost of the model).    *)

Var(tp, size, code, r) == [var_type |-> tp, size |-> size, code |-> code, reference |-> r]
Scope(tp, id, children) == [scope_type |-> tp, identifier |-> id, children |-> children]
ScopeItem_Var(v) == [item |-> "Var", var |-> v]
ScopeItem_Scope(sc) == [item |-> "Scope", scope |-> sc]

WithLog(r, log) ==
  [st |-> r.st, val |-> r.val, err |-> r.err, pos |-> r.pos, sim |-> r.sim, log |-> log]
Fail(n, e, log) == WithLog(WithSim(Err(e, n.pos), n.sim), log)
Done(n, v, log) == WithLog(WithSim(Ok(v, n.pos), n.sim), log)

\* what a step of the loops appends to the log
Logged(log, n) == IF n.st = "Ok" THEN Append(log, n.val) ELSE log

RECURSIVE parse_scope_loop(_, _, _, _, _, _)
parse_scope_loop(p, sim, scope_type, reference, children, log) ==
  Let(next(p, sim), LAMBDA n :
    CASE n.st = "None" -> Fail(n, ParseError("Unexpected EOF in $scope"), log)
      [] n.st = "Err" -> Fail(n, n.err, log)
      [] n.st = "Panic" -> WithLog(n, log)
      [] n.val.tag = "Upscope" ->
           Done(n, Scope(scope_type, reference, children), Logged(log, n))
      [] n.val.tag = "ScopeDef" ->
           Let(parse_scope_loop(n.pos, n.sim, n.val.scope_type, n.val.identifier,
                                <<>>, Logged(log, n)),
               LAMBDA sub :
                 IF sub.st # "Ok" THEN sub
                 ELSE parse_scope_loop(sub.pos, sub.sim, scope_type, reference,
                                       Append(children, ScopeItem_Scope(sub.val)), sub.log))
      [] n.val.tag = "VarDef" ->
           parse_scope_loop(n.pos, n.sim, scope_type, reference,
                            Append(children, ScopeItem_Var(Var(n.val.var_type, n.val.size,
                                                               n.val.code, n.val.reference))),
                            Logged(log, n))
      [] OTHER -> Fail(n, ParseError("Unexpected command in $scope"), Logged(log, n)))

\* a slip: no recursion, a nested scope is skipped and the first upscope ends the scope
RECURSIVE parse_scope_flat_loop(_, _, _, _, _, _)
parse_scope_flat_loop(p, sim, scope_type, reference, children, log) ==
  Let(next(p, sim), LAMBDA n :
    CASE n.st = "None" -> Fail(n, ParseError("Unexpected EOF in $scope"), log)
      [] n.st = "Err" -> Fail(n, n.err, log)
      [] n.st = "Panic" -> WithLog(n, log)
      [] n.val.tag = "Upscope" ->
           Done(n, Scope(scope_type, reference, children), Logged(log, n))
      [] n.val.tag = "ScopeDef" ->
           parse_scope_flat_loop(n.pos, n.sim, scope_type, reference, children, Logged(log, n))
      [] n.val.tag = "VarDef" ->
           parse_scope_flat_loop(n.pos, n.sim, scope_type, reference,
                                 Append(children, ScopeItem_Var(Var(n.val.var_type, n.val.size,
                                                                    n.val.code, n.val.reference))),
                                 Logged(log, n))
      [] OTHER -> Fail(n, ParseError("Unexpected command in $scope"), Logged(log, n)))

parse_scope_flat(p, sim, scope_type, reference) ==
  parse_scope_flat_loop(p, sim, scope_type, reference, <<>>, <<>>)

\* a slip: a command that does not belong to a scope is passed over, and the
\* end of the input closes the scope
RECURSIVE parse_scope_lenient_loop(_, _, _, _, _, _)
parse_scope_lenient_loop(p, sim, scope_type, reference, children, log) ==
  Let(next(p, sim), LAMBDA n :
    CASE n.st = "None" -> Done(n, Scope(scope_type, reference, children), log)
      [] n.st = "Err" -> Fail(n, n.err, log)
      [] n.st = "Panic" -> WithLog(n, log)
      [] n.val.tag = "Upscope" ->
           Done(n, Scope(scope_type, reference, children), Logged(log, n))
      [] n.val.tag = "ScopeDef" ->
           Let(parse_scope_lenient_loop(n.pos, n.sim, n.val.scope_type, n.val.identifier,
                                        <<>>, Logged(log, n)),
               LAMBDA sub :
                 IF sub.st # "Ok" THEN sub
                 ELSE parse_scope_lenient_loop(sub.pos, sub.sim, scope_type, reference,
                                               Append(children, ScopeItem_Scope(sub.val)),
                                               sub.log))
      [] n.val.tag = "VarDef" ->
           parse_scope_lenient_loop(n.pos, n.sim, scope_type, reference,
                                    Append(children,
                                           ScopeItem_Var(Var(n.val.var_type, n.val.size,
                                                             n.val.code, n.val.reference))),
                                    Logged(log, n))
      [] OTHER -> parse_scope_lenient_loop(n.pos, n.sim, scope_type, reference, children,
                                           Logged(log, n)))

parse_scope_lenient(p, sim, scope_type, reference) ==
  parse_scope_lenient_loop(p, sim, scope_type, reference, <<>>, <<>>)

parse_scope(p, sim, scope_type, reference) ==
  parse_scope_loop(p, sim, scope_type, reference, <<>>, <<>>)

\* Default::default() of Header
DefaultScope == Scope("Module", <<>>, <<>>)
DefaultHeader ==
  [comment |-> None, date |-> None, version |-> None, timescale |-> None,
   scope |-> DefaultScope]

RECURSIVE parse_header_loop(_, _, _, _)
parse_header_loop(p, sim, header, log) ==
  Let(next(p, sim), LAMBDA n :
    CASE n.st = "None" -> Fail(n, ParseError("Unexpected EOF in header"), log)
      [] n.st = "Err" -> Fail(n, n.err, log)
      [] n.st = "Panic" -> WithLog(n, log)
      [] n.val.tag = "Enddefinitions" -> Done(n, header, Logged(log, n))
      [] n.val.tag = "Comment" ->
           parse_header_loop(n.pos, n.sim, [header EXCEPT !.comment = Some(n.val.text)],
                             Logged(log, n))
      [] n.val.tag = "Date" ->
           parse_header_loop(n.pos, n.sim, [header EXCEPT !.date = Some(n.val.text)],
                             Logged(log, n))
      [] n.val.tag = "Version" ->
           parse_header_loop(n.pos, n.sim, [header EXCEPT !.version = Some(n.val.text)],
                             Logged(log, n))
      [] n.val.tag = "Timescale" ->
           parse_header_loop(n.pos, n.sim,
                             [header EXCEPT !.timescale = Some(<<n.val.n, n.val.unit>>)],
                             Logged(log, n))
      [] n.val.tag = "ScopeDef" ->
           Let(parse_scope(n.pos, n.sim, n.val.scope_type, n.val.identifier), LAMBDA sc :
             IF sc.st # "Ok" THEN WithLog(sc, Logged(log, n) \o sc.log)
             ELSE parse_header_loop(sc.pos, sc.sim, [header EXCEPT !.scope = sc.val],
                                    Logged(log, n) \o sc.log))
      [] OTHER -> Fail(n, ParseError("Unexpected command in header"), Logged(log, n)))

\* a slip: a command that does not belong to the header is passed over
RECURSIVE parse_header_lenient_loop(_, _, _, _)
parse_header_lenient_loop(p, sim, header, log) ==
  Let(next(p, sim), LAMBDA n :
    CASE n.st = "None" -> Fail(n, ParseError("Unexpected EOF in header"), log)
      [] n.st = "Err" -> Fail(n, n.err, log)
      [] n.st = "Panic" -> WithLog(n, log)
      [] n.val.tag = "Enddefinitions" -> Done(n, header, Logged(log, n))
      [] n.val.tag = "ScopeDef" ->
           Let(parse_scope(n.pos, n.sim, n.val.scope_type, n.val.identifier), LAMBDA sc :
             IF sc.st # "Ok" THEN WithLog(sc, Logged(log, n) \o sc.log)
             ELSE parse_header_lenient_loop(sc.pos, sc.sim, [header EXCEPT !.scope = sc.val],
                                            Logged(log, n) \o sc.log))
      [] OTHER -> parse_header_lenient_loop(n.pos, n.sim, header, Logged(log, n)))

parse_header_lenient(p, sim) == parse_header_lenient_loop(p, sim, DefaultHeader, <<>>)

\* a slip: the first top-level scope is kept, later ones are read and dropped
RECURSIVE parse_header_first_scope_loop(_, _, _, _)
parse_header_first_scope_loop(p, sim, header, log) ==
  Let(next(p, sim), LAMBDA n :
    CASE n.st = "None" -> Fail(n, ParseError("Unexpected EOF in header"), log)
      [] n.st = "Err" -> Fail(n, n.err, log)
      [] n.st = "Panic" -> WithLog(n, log)
      [] n.val.tag = "Enddefinitions" -> Done(n, header, Logged(log, n))
      [] n.val.tag = "Comment" ->
           parse_header_first_scope_loop(n.pos, n.sim,
                                         [header EXCEPT !.comment = Some(n.val.text)],
                                         Logged(log, n))
      [] n.val.tag = "Date" ->
           parse_header_first_scope_loop(n.pos, n.sim,
                                         [header EXCEPT !.date = Some(n.val.text)],
                                         Logged(log, n))
      [] n.val.tag = "Version" ->
           parse_header_first_scope_loop(n.pos, n.sim,
                                         [header EXCEPT !.version = Some(n.val.text)],
                                         Logged(log, n))
      [] n.val.tag = "Timescale" ->
           parse_header_first_scope_loop(n.pos, n.sim,
                                         [header EXCEPT
                                            !.timescale = Some(<<n.val.n, n.val.unit>>)],
                                         Logged(log, n))
      [] n.val.tag = "ScopeDef" ->
           Let(parse_scope(n.pos, n.sim, n.val.scope_type, n.val.identifier), LAMBDA sc :
             IF sc.st # "Ok" THEN WithLog(sc, Logged(log, n) \o sc.log)
             ELSE parse_header_first_scope_loop(
                    sc.pos, sc.sim,
                    IF header.scope = DefaultScope THEN [header EXCEPT !.scope = sc.val]
                    ELSE header,
                    Logged(log, n) \o sc.log))
      [] OTHER -> Fail(n, ParseError("Unexpected command in header"), Logged(log, n)))

parse_header_first_scope(p, sim) == parse_header_first_scope_loop(p, sim, DefaultHeader, <<>>)

\* a slip: after the end of the header one more byte is read
parse_header_reads_ahead(p, sim) ==
  Let(parse_header_loop(p, sim, DefaultHeader, <<>>), LAMBDA h :
    IF h.st = "Ok" /\ h.pos <= Len(input) THEN [h EXCEPT !.pos = h.pos + 1] ELSE h)

parse_header(p, sim) == parse_header_loop(p, sim, DefaultHeader, <<>>)

-----------------------------------------------------------------------------
(* The parser as a state machine: Parser::new, then calls of its methods.  *)

\* the Begin/End commands among a sequence of yielded commands
RECURSIVE LastBeginEnd(_, _)
LastBeginEnd(log, before) ==
  IF log = <<>> THEN before
  ELSE IF log[Len(log)].tag \in {"Begin", "End"} THEN Some(log[Len(log)])
  ELSE LastBeginEnd(SubSeq(log, 1, Len(log) - 1), before)

Returned(op, r, log) ==
  [op |-> op, pos0 |-> pos, sim0 |-> simulation_command, be0 |-> lastBE, n0 |-> Len(out),
   st |-> r.st, val |-> r.val, err |-> r.err, log |-> log]

NoCall ==
  [op |-> "new", pos0 |-> 1, sim0 |-> None, be0 |-> None, n0 |-> 0,
   st |-> "None", val |-> NoVal, err |-> NoErr, log |-> <<>>]

\* Parser::new(r)
New(fs, bytes, cap) ==
  /\ frags = fs
  /\ input = bytes
  /\ srcEnd \in {"eof", "ioerr"}
  /\ pos = 1
  /\ simulation_command = None
  /\ ret = NoCall
  /\ out = <<>>
  /\ lastBE = None
  /\ phase = "running"
  /\ tokCap = cap
  /\ onlyNext = TRUE

\* one step of the iterator
CallNext ==
  /\ phase # "aborted"
  /\ LET n == next(pos, simulation_command)
         log == IF n.st = "Ok" THEN <<n.val>> ELSE <<>>
     IN
     /\ pos' = n.pos
     /\ simulation_command' = n.sim
     /\ ret' = Returned("next", n, log)
     /\ out' = out \o log
     /\ lastBE' = LastBeginEnd(log, lastBE)
     /\ phase' = IF n.st = "Panic" THEN "aborted" ELSE "running"
  /\ UNCHANGED <<input, srcEnd, frags, tokCap, onlyNext>>

\* a call of parse_header()
CallParseHeader ==
  /\ phase # "aborted"
  /\ LET h == parse_header(pos, simulation_command) IN
     /\ pos' = h.pos
     /\ simulation_command' = h.sim
     /\ ret' = Returned("parse_header", h, h.log)
     /\ out' = out \o h.log
     /\ lastBE' = LastBeginEnd(h.log, lastBE)
     /\ phase' = IF h.st = "Panic" THEN "aborted" ELSE "running"
  /\ onlyNext' = FALSE
  /\ UNCHANGED <<input, srcEnd, frags, tokCap>>

Next == CallNext \/ CallParseHeader

\* read_token(&mut buf) with a buffer of tokCap bytes, as the decoders call it
CallReadToken ==
  /\ phase # "aborted"
  /\ LET t == read_token(tokCap, pos) IN
     /\ pos' = t.pos
     /\ ret' = Returned("read_token", t, <<>>)
  /\ UNCHANGED <<input, srcEnd, frags, simulation_command, out, lastBE, phase, tokCap, onlyNext>>

NextTok == CallReadToken

\* parse_scope(tp, id), called as parse_header and parse_scope call it: on the
\* ScopeDef(tp, id) that the step before has yielded
CallParseScope ==
  /\ phase # "aborted"
  /\ ret.op = "next" /\ ret.st = "Ok" /\ ret.val.tag = "ScopeDef"
  /\ LET sc == parse_scope(pos, simulation_command, ret.val.scope_type, ret.val.identifier) IN
     /\ pos' = sc.pos
     /\ simulation_command' = sc.sim
     /\ ret' = Returned("parse_scope", sc, sc.log)
     /\ out' = out \o sc.log
     /\ lastBE' = LastBeginEnd(sc.log, lastBE)
     /\ phase' = IF sc.st = "Panic" THEN "aborted" ELSE "running"
  /\ onlyNext' = FALSE
  /\ UNCHANGED <<input, srcEnd, frags, tokCap>>

NextScope == CallNext \/ CallParseScope

-----------------------------------------------------------------------------
(* Inputs.  An input is written as a sequence of pieces; a piece is its    *)
(* bytes and what it is meant to be: the command it spells (cmd), white    *)
(* space ("Ws"), the $end keyword ("EndKw"), or something malformed.       *)

Piece(bytes, cmd) == [bytes |-> bytes, cmd |-> cmd]
Ws == [tag |-> "Ws"]
EndKw == [tag |-> "EndKw"]
Malformed == [tag |-> "Malformed"]

RECURSIVE Flatten(_)
Flatten(fs) == IF fs = <<>> THEN <<>> ELSE Head(fs).bytes \o Flatten(Tail(fs))

SeqsUpTo(S, n) == UNION {[1..k -> S] : k \in 0..n}

Repeat(b, n) == [i \in 1..n |-> b]

MaxCmds == 3

P_dumpvars == Piece(<<"$">> \o KwDumpvars \o <<"\n">>, Begin("Dumpvars"))
P_dumpoff == Piece(<<"$">> \o KwDumpoff \o <<" ">>, Begin("Dumpoff"))
P_dumpall == Piece(<<"$">> \o KwDumpall \o <<"\t">>, Begin("Dumpall"))
P_dumpon == Piece(<<"$">> \o KwDumpon \o <<"\r">>, Begin("Dumpon"))
P_end == Piece(<<"$">> \o KwEnd \o <<"\n">>, EndKw)
P_ws == Piece(<<" ", "\n">>, Ws)
P_scalar0 == Piece(<<"0", "%", "\n">>, ChangeScalar(<<4>>, "V0"))
P_timestamp == Piece(<<"#", "2", "2", "1", "1", "\n">>, Timestamp(<<"2", "2", "1", "1">>))

P_comment ==
  Piece(<<"$">> \o KwComment \o <<" ", "a", " ", " ", "b", "\n">> \o TokEnd,
        Comment(<<"a", " ", " ", "b">>))

CorePieces == {P_dumpvars, P_dumpoff, P_end, P_ws, P_comment}

ScalarPieces ==
  { Piece(<<"1", "$", "\n">>, ChangeScalar(<<3>>, "V1")),
    Piece(<<"x", "&", " ">>, ChangeScalar(<<5>>, "X")),
    Piece(<<"X", "!", "!", "\t">>, ChangeScalar(<<0, 0>>, "X")),
    Piece(<<"z", "(", "\r">>, ChangeScalar(<<7>>, "Z")),
    Piece(<<"Z", ")", " ">>, ChangeScalar(<<8>>, "Z")),
    Piece(<<"0", "0", " ">>, ChangeScalar(<<15>>, "V0")),
    Piece(<<"1", "x", " ">>, ChangeScalar(<<87>>, "V1")) }

VectorPieces ==
  { Piece(<<"b", "1", "0", "0", "0", "0", "0", "0", "1", " ", "#", "\n">>,
          ChangeVector(<<2>>, <<"V1", "V0", "V0", "V0", "V0", "V0", "V0", "V1">>)),
    Piece(<<"b", "0", " ", "#", "\n">>, ChangeVector(<<2>>, <<"V0">>)),
    Piece(<<"B", "z", "Z", "x", "X", "0", "1", " ", "$", " ">>,
          ChangeVector(<<3>>, <<"Z", "Z", "X", "X", "V0", "V1">>)),
    Piece(<<"b">> \o Repeat("1", VectorCap) \o <<" ", "#", "#", "\n">>,
          ChangeVector(<<2, 2>>, Repeat("V1", VectorCap))) }

OtherChangePieces ==
  { Piece(<<"r", "1", ".", "5", "0", " ", "!", "\n">>,
          ChangeReal(<<0>>, [neg |-> FALSE, int |-> <<"1">>, frac |-> <<"5">>])),
    Piece(<<"s", "h", "i", " ", "&", "\n">>, ChangeString(<<5>>, <<"h", "i">>)),
    Piece(<<"#", "0", "\n">>, Timestamp(<<"0">>)),
    Piece(<<"#", "0", "0", "7", " ">>, Timestamp(<<"7">>)) }

MalformedPieces ==
  { Piece(<<"a", "%", "\n">>, Malformed),
    Piece(<<"%", " ">>, Malformed),
    Piece(<<"2", "%", " ">>, Malformed),
    Piece(<<"$", "b", "o", "g", "u", "s", " ">>, Malformed),
    Piece(<<"b", "0", "1", "2", " ", "#", "\n">>, Malformed),
    Piece(<<"b", "1", "a", " ", "#", "\n">>, Malformed),
    Piece(<<"b">> \o Repeat("0", VectorCap + 1) \o <<" ", "#", "\n">>, Malformed),
    Piece(<<"0", "$", "e", "n", "d", " ">>, Malformed),
    Piece(<<"1", "\f", " ">>, Malformed),
    Piece(<<"#", "x", " ">>, Malformed),
    Piece(<<"#", "1", "2">>, Malformed),
    Piece(<<"$", "e", "n", "d">>, Malformed),
    Piece(<<"b", "1", " ">>, Malformed),
    Piece(<<"0">>, Malformed) }

TailPieces ==
  {P_dumpall, P_dumpon, P_scalar0, P_timestamp} \cup ScalarPieces \cup VectorPieces \cup OtherChangePieces
    \cup MalformedPieces

\* a body: up to MaxCmds core pieces, then at most one further piece
BodyInputs ==
  SeqsUpTo(CorePieces, MaxCmds)
    \cup {core \o <<t>> : core \in SeqsUpTo(CorePieces, MaxCmds - 1), t \in TailPieces}

InitBody == \E fs \in BodyInputs : New(fs, Flatten(fs), 0)

SpecBody == InitBody /\ [][Next]_vars

-----------------------------------------------------------------------------
(* Reading the input as it is written, for the statements below.           *)

\* the index of the first non-whitespace byte at or after p (Len + 1 if none)
RECURSIVE SkipWs(_)
SkipWs(p) == IF p <= Len(input) /\ whitespace_byte(input[p]) THEN SkipWs(p + 1) ELSE p

\* the index just after the run of non-whitespace bytes that starts at p
RECURSIVE RunEnd(_)
RunEnd(p) == IF p <= Len(input) /\ ~whitespace_byte(input[p]) THEN RunEnd(p + 1) ELSE p

\* the whitespace-delimited word found from p on, and whether whitespace ends it
WordAt(p) == SubSeq(input, SkipWs(p), RunEnd(SkipWs(p)) - 1)
WordTerminated(p) == RunEnd(SkipWs(p)) <= Len(input)
AfterWord(p) == RunEnd(SkipWs(p)) + 1

\* the byte the step that starts at p dispatches on ("" if none is left)
DispatchByteAt(p) == IF SkipWs(p) <= Len(input) THEN input[SkipWs(p)] ELSE ""

\* the step that starts at p reads the keyword kw after a "$"
KeywordAt(p, kw) ==
  /\ DispatchByteAt(p) = "$"
  /\ WordAt(SkipWs(p) + 1) = kw
  /\ WordTerminated(SkipWs(p) + 1)

\* a word that is an identifier code: printable bytes, not "$end", fits the buffer
IsIdWord(w) ==
  /\ w # <<>> /\ w # TokEnd /\ Len(w) <= TokenParseCap
  /\ \A i \in 1..Len(w) : \E j \in 1..Len(IdChars) : IdChars[j] = w[i]

LogicValueOf(b) ==
  CASE b = "0" -> "V0" [] b = "1" -> "V1" [] b \in {"x", "X"} -> "X" [] b \in {"z", "Z"} -> "Z"
    [] OTHER -> "none"

-----------------------------------------------------------------------------
(* C1: a "$end" keyword step yields End(k) exactly when a simulation       *)
(* command of kind k is open, that is when the last Begin/End command      *)
(* yielded was Begin(k), and it clears the open state; with none open it   *)
(* fails with "Unmatched $end" and yields no command.  No other step       *)
(* yields an End.  Inside parse_header the same holds of its inner steps.  *)
C1_EndMatchesOpenCommand ==
  /\ (ret.op = "next" /\ KeywordAt(ret.pos0, KwEnd) /\ ret.sim0 # None) =>
       /\ ret.st = "Ok" /\ ret.val = End(ret.sim0[1])
       /\ ret.be0 = Some(Begin(ret.sim0[1]))
       /\ simulation_command = None
  /\ (ret.op = "next" /\ KeywordAt(ret.pos0, KwEnd) /\ ret.sim0 = None) =>
       /\ ret.st = "Err" /\ ret.err = ParseError("Unmatched $end")
       /\ ret.log = <<>>
       /\ ret.be0 = None \/ ret.be0[1].tag = "End"
       /\ simulation_command = None
  /\ (ret.op = "next" /\ ret.st = "Ok" /\ ret.val.tag = "End") => KeywordAt(ret.pos0, KwEnd)
  /\ ret.op = "parse_header" =>
       \A i \in 1..Len(ret.log) :
         ret.log[i].tag = "End" =>
           /\ ret.sim0 # None /\ ret.log[i] = End(ret.sim0[1])
           /\ ret.be0 = Some(Begin(ret.sim0[1]))
           /\ \A j \in 1..(i - 1) : ret.log[j].tag \notin {"Begin", "End"}
           /\ simulation_command = None
  /\ (ret.op = "parse_header" /\ ret.err = ParseError("Unmatched $end")) =>
       /\ ret.sim0 = None
       /\ \A j \in 1..Len(ret.log) : ret.log[j].tag \notin {"Begin", "End"}

\* a Begin, then its End, then an "$end" with nothing open
C1_Witness ==
  /\ ret.op = "next" /\ KeywordAt(ret.pos0, KwEnd)
  /\ ret.st = "Err" /\ ret.err = ParseError("Unmatched $end")
  /\ Len(out) = 2 /\ out[1] = Begin("Dumpoff") /\ out[2] = End("Dumpoff")

-----------------------------------------------------------------------------
(* The commands a sequence of pieces spells, in the order written.         *)

RECURSIVE WellFormedFrom(_, _)
WellFormedFrom(fs, open) ==
  IF fs = <<>> THEN TRUE
  ELSE CASE Head(fs).cmd.tag = "Malformed" -> FALSE
         [] Head(fs).cmd.tag = "EndKw" -> open # None /\ WellFormedFrom(Tail(fs), None)
         [] Head(fs).cmd.tag = "Begin" -> WellFormedFrom(Tail(fs), Some(Head(fs).cmd.c))
         [] OTHER -> WellFormedFrom(Tail(fs), open)

WellFormed(fs) == WellFormedFrom(fs, None)

RECURSIVE ExpectedFrom(_, _)
ExpectedFrom(fs, open) ==
  IF fs = <<>> THEN <<>>
  ELSE CASE Head(fs).cmd.tag = "Ws" -> ExpectedFrom(Tail(fs), open)
         [] Head(fs).cmd.tag = "EndKw" -> <<End(open[1])>> \o ExpectedFrom(Tail(fs), None)
         [] Head(fs).cmd.tag = "Begin" ->
              <<Head(fs).cmd>> \o ExpectedFrom(Tail(fs), Some(Head(fs).cmd.c))
         [] OTHER -> <<Head(fs).cmd>> \o ExpectedFrom(Tail(fs), open)

Expected(fs) == ExpectedFrom(fs, None)

\* for each command written, the number of bytes up to and including its last
RECURSIVE CmdEndsFrom(_, _)
CmdEndsFrom(fs, n) ==
  IF fs = <<>> THEN <<>>
  ELSE IF Head(fs).cmd.tag = "Ws" THEN CmdEndsFrom(Tail(fs), n + Len(Head(fs).bytes))
  ELSE <<n + Len(Head(fs).bytes)>> \o CmdEndsFrom(Tail(fs), n + Len(Head(fs).bytes))

CmdEnds(fs) == CmdEndsFrom(fs, 0)

(* C2: iterating over a well-formed body (each command written in full and *)
(* ended by white space or by its "$end") yields the commands written, in  *)
(* order, one per call of next(); each call leaves the cursor just after   *)
(* the command it decoded, so no byte of a later command is consumed; and  *)
(* when only white space remains next() returns None, not an error.        *)
C2_OneCommandPerStep ==
  /\ (onlyNext /\ WellFormed(frags)) =>
       /\ Len(out) <= Len(Expected(frags))
       /\ out = SubSeq(Expected(frags), 1, Len(out))
       /\ ret.op = "next" =>
            CASE ret.st = "Ok" ->
                   /\ ret.log = <<out[Len(out)]>>
                   /\ pos = CmdEnds(frags)[Len(out)] + 1
              [] ret.st = "None" ->
                   /\ srcEnd = "eof"
                   /\ Len(out) = Len(Expected(frags))
              [] ret.st = "Err" ->
                   /\ srcEnd = "ioerr" /\ ret.err = IoError
                   /\ Len(out) = Len(Expected(frags))
              [] OTHER -> FALSE
  /\ (ret.op = "next" /\ srcEnd = "eof" /\ SkipWs(ret.pos0) > Len(input)) =>
       /\ ret.st = "None" /\ ret.log = <<>>
       /\ simulation_command = ret.sim0

\* three commands around white space were yielded and the sequence has ended
C2_Witness ==
  /\ onlyNext /\ WellFormed(frags) /\ ret.op = "next" /\ ret.st = "None"
  /\ Len(out) = 2 /\ Len(frags) = 3 /\ frags[2].cmd.tag = "Ws"
  /\ out[1].tag = "Comment"

(* C6: a vector change "b<bits> <id>" whose bits word has k bytes,         *)
(* 1 <= k <= 32, yields ChangeVector(id, v) with exactly k values, v[i]    *)
(* the logic value of the i-th byte written (a word of one byte gives a    *)
(* vector of one value); if a byte of the word is none of 0 1 x X z Z the  *)
(* step fails and yields no command.                                       *)
C6_VectorChange ==
  (/\ ret.op = "next"
   /\ DispatchByteAt(ret.pos0) \in {"b", "B"}
   /\ WordTerminated(SkipWs(ret.pos0) + 1)
   /\ Len(WordAt(SkipWs(ret.pos0) + 1)) \in 1..VectorCap) =>
    LET q == SkipWs(ret.pos0) + 1
        bits == WordAt(q)
        idw == WordAt(AfterWord(q))
    IN
    IF \A i \in 1..Len(bits) : LogicValueOf(bits[i]) # "none"
    THEN (IsIdWord(idw) /\ WordTerminated(AfterWord(q))) =>
           /\ ret.st = "Ok"
           /\ ret.val.tag = "ChangeVector"
           /\ Len(ret.val.bits) = Len(bits)
           /\ \A i \in 1..Len(bits) : ret.val.bits[i] = LogicValueOf(bits[i])
           /\ ret.val.id = parse_id_code(idw).val
    ELSE /\ ret.st = "Err"
         /\ ret.log = <<>>

\* the vector of width 1
C6_Witness ==
  /\ ret.op = "next" /\ ret.st = "Ok"
  /\ DispatchByteAt(ret.pos0) = "b"
  /\ ret.val = ChangeVector(<<2>>, <<"V0">>)

(* C7: a step that dispatches on 0, 1, x, X, z or Z and finds an           *)
(* identifier word after it yields ChangeScalar with the decoding of the   *)
(* dispatch byte and the identifier parsed from the word that follows; it  *)
(* never fails with the invalid-value error.                               *)
C7_ScalarChange ==
  (ret.op = "next" /\ DispatchByteAt(ret.pos0) \in {"0", "1", "x", "X", "z", "Z"}) =>
    LET q == SkipWs(ret.pos0)
        idw == WordAt(q + 1)
    IN
    /\ (IsIdWord(idw) /\ WordTerminated(q + 1)) =>
         /\ ret.st = "Ok"
         /\ ret.val = ChangeScalar(parse_id_code(idw).val, LogicValueOf(input[q]))
         /\ pos = AfterWord(q + 1)
    /\ ret.err # ParseError("Invalid value")

\* "0%": the value is the byte before the identifier
C7_Witness ==
  /\ ret.op = "next" /\ ret.st = "Ok"
  /\ input[SkipWs(ret.pos0)] = "0" /\ input[SkipWs(ret.pos0) + 1] = "%"
  /\ ret.val = ChangeScalar(<<4>>, "V0")

DispatchBytes == {"$", "#", "0", "1", "x", "X", "z", "Z", "b", "B", "r", "R", "s", "S"}

(* C9: a step whose first non-whitespace byte is none of the dispatch      *)
(* bytes yields no command and no typed error: it panics, and so does a    *)
(* parse_header whose first step meets such a byte.                        *)
C9_UnknownDispatchPanics ==
  (/\ ret.op \in {"next", "parse_header"}
   /\ SkipWs(ret.pos0) <= Len(input)
   /\ DispatchByteAt(ret.pos0) \notin DispatchBytes) =>
    /\ ret.st = "Panic"
    /\ ret.log = <<>>
    /\ phase = "aborted"

\* the line "a%"
C9_Witness ==
  /\ ret.op = "next" /\ ret.st = "Panic"
  /\ input[SkipWs(ret.pos0)] = "a" /\ input[SkipWs(ret.pos0) + 1] = "%"

-----------------------------------------------------------------------------
(* Inputs of the token harness: white space, a word, white space, a word,  *)
(* and then white space or the end of the input; the words are as long as  *)
(* the buffer, or a little shorter or longer.                              *)

MaxSmallCap == 3
MaxOver == 2
MaxWs == 2

WordBytes == <<"a", "$", "1", "~", "b">>
Word(n) == [i \in 1..n |-> WordBytes[((i - 1) % Len(WordBytes)) + 1]]
WsBytes == <<" ", "\t", "\n", "\r">>
WsRun(n) == [i \in 1..n |-> WsBytes[((i - 1) % Len(WsBytes)) + 1]]

TokCaps == (1..MaxSmallCap) \cup {CommandEndCap, KeywordCap, TokenParseCap}
WordLens(cap) == {l \in 1..(cap + MaxOver) : l <= MaxSmallCap + MaxOver \/ l >= cap - 1}

InitTok ==
  \E cap \in TokCaps :
    \E l1 \in WordLens(cap), l2 \in WordLens(cap) \cup {0}, w1 \in 0..MaxWs, w2 \in 0..1 :
      New(<<>>, WsRun(w1) \o Word(l1) \o WsRun(1) \o Word(l2) \o WsRun(w2), cap)

SpecTok == InitTok /\ [][NextTok]_vars

(* C8: read_token with a buffer of N bytes returns exactly the bytes of    *)
(* every whitespace-terminated token of at most N bytes (N included) and   *)
(* fails with "Token too long" for every longer one; whatever it returns   *)
(* is the whole token, never a truncation of it.                           *)
C8_TokenFitsOrTooLong ==
  ret.op = "read_token" =>
    /\ (WordAt(ret.pos0) # <<>> /\ WordTerminated(ret.pos0)) =>
         IF Len(WordAt(ret.pos0)) <= tokCap
         THEN /\ ret.st = "Ok"
              /\ ret.val = WordAt(ret.pos0)
              /\ pos = AfterWord(ret.pos0)
         ELSE /\ ret.st = "Err"
              /\ ret.err = ParseError("Token too long")
    /\ ret.st = "Ok" => ret.val = WordAt(ret.pos0)

\* a token of exactly N bytes came back whole, as the second read of the input
C8_Witness ==
  /\ ret.op = "read_token" /\ ret.st = "Ok"
  /\ tokCap = KeywordCap /\ Len(ret.val) = KeywordCap
  /\ ret.pos0 > 1

-----------------------------------------------------------------------------
(* Inputs of the scope builder: scope, var and upscope commands in any     *)
(* order, nested or not.                                                   *)

MaxScopeCmds == 5

P_scope_a ==
  Piece(<<"$">> \o KwScope \o <<" ", "m", "o", "d", "u", "l", "e", " ", "a", " ">>
          \o TokEnd \o <<"\n">>,
        ScopeDef("Module", <<"a">>))
P_scope_b ==
  Piece(<<"$">> \o KwScope \o <<"\t", "t", "a", "s", "k", " ", "b", "b", "\n">>
          \o TokEnd \o <<" ">>,
        ScopeDef("Task", <<"b", "b">>))
P_var_x ==
  Piece(<<"$">> \o KwVar \o <<" ", "w", "i", "r", "e", " ", "8", " ", "#", " ", "x", " ">>
          \o TokEnd \o <<"\n">>,
        VarDef("Wire", <<"8">>, <<2>>, <<"x">>))
P_upscope == Piece(<<"$">> \o KwUpscope \o <<" ">> \o TokEnd \o <<"\n">>, Upscope)

ScopePieces == {P_scope_a, P_scope_b, P_var_x, P_upscope}

InitScope == \E fs \in SeqsUpTo(ScopePieces, MaxScopeCmds) : New(fs, Flatten(fs), 0)

SpecScope == InitScope /\ [][NextScope]_vars

\* a scope written back as the commands that declare it
RECURSIVE CommandsOf(_)
RECURSIVE CommandsOfItems(_)
CommandsOf(sc) ==
  <<ScopeDef(sc.scope_type, sc.identifier)>> \o CommandsOfItems(sc.children) \o <<Upscope>>
CommandsOfItems(items) ==
  IF items = <<>> THEN <<>>
  ELSE (IF Head(items).item = "Var"
        THEN <<VarDef(Head(items).var.var_type, Head(items).var.size,
                      Head(items).var.code, Head(items).var.reference)>>
        ELSE CommandsOf(Head(items).scope))
       \o CommandsOfItems(Tail(items))

\* the index in cmds of the upscope that closes the scope open at index i
\* (depth scopes are open there), 0 if there is none
RECURSIVE MatchingUpscope(_, _, _)
MatchingUpscope(cmds, i, depth) ==
  IF i > Len(cmds) THEN 0
  ELSE CASE cmds[i].tag = "ScopeDef" -> MatchingUpscope(cmds, i + 1, depth + 1)
         [] cmds[i].tag = "Upscope" ->
              IF depth = 1 THEN i ELSE MatchingUpscope(cmds, i + 1, depth - 1)
         [] OTHER -> MatchingUpscope(cmds, i + 1, depth)

(* C4: called on a scope declaration whose matching upscope is written,    *)
(* parse_scope returns the scope whose children are, in declaration order, *)
(* exactly the variables and nested scopes written between the two, each   *)
(* nested scope holding the items between its own scope and upscope; it    *)
(* consumes the input through the matching upscope (with the white space   *)
(* byte that ends its "$end") and nothing after it.                        *)
C4_ScopeTree ==
  (/\ ret.op = "parse_scope"
   /\ ret.n0 >= 1
   /\ SubSeq(out, 1, ret.n0) = SubSeq(Expected(frags), 1, ret.n0)
   /\ MatchingUpscope(Expected(frags), ret.n0 + 1, 1) # 0) =>
    LET m == MatchingUpscope(Expected(frags), ret.n0 + 1, 1) IN
    /\ ret.st = "Ok"
    /\ CommandsOf(ret.val) = SubSeq(Expected(frags), ret.n0, m)
    /\ ret.log = SubSeq(Expected(frags), ret.n0 + 1, m)
    /\ pos = CmdEnds(frags)[m] + 1

\* a scope holding a variable and then a nested scope
C4_Witness ==
  /\ ret.op = "parse_scope" /\ ret.st = "Ok"
  /\ ret.val.identifier = <<"a">>
  /\ Len(ret.val.children) = 2
  /\ ret.val.children[1].item = "Var"
  /\ ret.val.children[2].item = "Scope"
  /\ ret.val.children[2].scope.identifier = <<"b", "b">>

-----------------------------------------------------------------------------
(* Inputs of the text commands: a comment, date or version keyword, then   *)
(* up to MaxText runs of words, white space, "$" and "$end" in any order,   *)
(* with or without the end of the header after them.                       *)

MaxText == 4

Text == [tag |-> "Text"]

P_enddefinitions ==
  Piece(<<"$">> \o KwEnddefinitions \o <<" ">> \o TokEnd \o <<"\n">>, Enddefinitions)

TextKeywords == {KwComment, KwDate, KwVersion}

TextAtoms == {<<"a", " ", "b">>, <<" ">>, <<"\f">>, <<"$">>, TokEnd}

TextInputs ==
  { <<Piece(<<"$">> \o kw \o <<" ">>, Text)>> \o [i \in 1..Len(as) |-> Piece(as[i], Text)] \o tail :
      kw \in TextKeywords, as \in SeqsUpTo(TextAtoms, MaxText),
      tail \in {<<>>, <<P_enddefinitions>>} }

InitText == \E fs \in TextInputs : New(fs, Flatten(fs), 0)

SpecText == InitText /\ [][Next]_vars

Max(S) == CHOOSE x \in S : \A y \in S : x >= y

\* the step that starts at p reads one of the three text keywords
TextKeywordAt(p) == \E kw \in TextKeywords : KeywordAt(p, kw)

TextTag(p) ==
  CASE KeywordAt(p, KwComment) -> "Comment"
    [] KeywordAt(p, KwDate) -> "Date"
    [] OTHER -> "Version"

\* the index of the first byte after the keyword read from p and its delimiter
TextStart(p) == AfterWord(SkipWs(p) + 1)

\* the index at which the first "$end" at or after q begins, 0 if there is none
FirstEnd(q) ==
  IF \E i \in q..(Len(input) - 3) : SubSeq(input, i, i + 3) = TokEnd
  THEN Min({i \in q..(Len(input) - 3) : SubSeq(input, i, i + 3) = TokEnd})
  ELSE 0

\* input[a..b] without the white space at its two ends
Trimmed(a, b) ==
  IF \E i \in a..b : ~trim_whitespace(input[i])
  THEN SubSeq(input, Min({i \in a..b : ~trim_whitespace(input[i])}),
              Max({i \in a..b : ~trim_whitespace(input[i])}))
  ELSE <<>>

ValidUtf8(a, b) == \A i \in a..b : input[i] # BadUtf8Byte

\* the text command written at p, whose "$end" begins at e
TextCommand(p, e) == [tag |-> TextTag(p), text |-> Trimmed(TextStart(p), e - 1)]

\* the text of the last command of a kind among log, as the header keeps it
LastText(log, tag) ==
  IF \E i \in 1..Len(log) : log[i].tag = tag
  THEN Some(log[Max({i \in 1..Len(log) : log[i].tag = tag})].text)
  ELSE None

(* C3: a step on "$comment", "$date" or "$version" yields the command with *)
(* the bytes from after the keyword up to the first "$end", without the    *)
(* white space at their two ends (as str::trim removes it: the four white  *)
(* space bytes and the form feed) and with everything between kept; the    *)
(* cursor is left on the byte after that "$end"; if the input ends with no *)
(* "$end" the step fails with "Unexpected EOF".  parse_header keeps, for   *)
(* each of the three, the text of the last such command it has read.       *)
C3_TextCommand ==
  /\ (ret.op = "next" /\ TextKeywordAt(ret.pos0)) =>
       /\ (FirstEnd(TextStart(ret.pos0)) # 0
             /\ ValidUtf8(TextStart(ret.pos0), FirstEnd(TextStart(ret.pos0)) - 1)) =>
            /\ ret.st = "Ok"
            /\ ret.val = TextCommand(ret.pos0, FirstEnd(TextStart(ret.pos0)))
            /\ pos = FirstEnd(TextStart(ret.pos0)) + 4
       /\ (FirstEnd(TextStart(ret.pos0)) = 0 /\ srcEnd = "eof") =>
            /\ ret.st = "Err" /\ ret.err = ParseError("Unexpected EOF")
            /\ ret.log = <<>>
  /\ (ret.op = "parse_header" /\ TextKeywordAt(ret.pos0)) =>
       /\ (FirstEnd(TextStart(ret.pos0)) # 0
             /\ ValidUtf8(TextStart(ret.pos0), FirstEnd(TextStart(ret.pos0)) - 1)) =>
            /\ ret.log # <<>>
            /\ ret.log[1] = TextCommand(ret.pos0, FirstEnd(TextStart(ret.pos0)))
       /\ (FirstEnd(TextStart(ret.pos0)) = 0 /\ srcEnd = "eof") =>
            /\ ret.st = "Err" /\ ret.err = ParseError("Unexpected EOF")
            /\ ret.log = <<>>
  /\ (ret.op = "parse_header" /\ ret.st = "Ok") =>
       /\ ret.val.comment = LastText(ret.log, "Comment")
       /\ ret.val.date = LastText(ret.log, "Date")
       /\ ret.val.version = LastText(ret.log, "Version")

\* a version of two words between a space and a form feed is in the header
C3_Witness ==
  /\ ret.op = "parse_header" /\ ret.st = "Ok"
  /\ ret.val.version = Some(<<"a", " ", "b">>)
  /\ input[TextStart(ret.pos0)] = " "
  /\ input[FirstEnd(TextStart(ret.pos0)) - 1] = "\f"

-----------------------------------------------------------------------------
(* Inputs of the timescale command: a magnitude of up to MaxDigits digits  *)
(* and a unit, written once as one word and once as two, in either order.  *)

MaxDigits == 8

\* runs of zeros, ones and zeros again, and two numbers of other digits
Magnitudes ==
  { m \in { Repeat("0", z) \o Repeat("1", k) \o Repeat("0", t) :
              z \in 0..MaxDigits, k \in 0..MaxDigits, t \in 0..MaxDigits } :
      Len(m) \in 1..MaxDigits }
    \cup {<<"9">>, <<"2", "3", "4", "5", "6", "7", "8">>}

\* the number a run of digits writes: the run from its first digit that is not 0
Magnitude(ds) ==
  IF \E i \in 1..Len(ds) : ds[i] # "0"
  THEN SubSeq(ds, Min({i \in 1..Len(ds) : ds[i] # "0"}), Len(ds))
  ELSE <<"0">>

P_timescale_compact(n, u) ==
  Piece(<<"$">> \o KwTimescale \o <<" ">> \o n \o u[1] \o <<" ">> \o TokEnd \o <<"\n">>,
        IF Len(n) + Len(u[1]) <= TimescaleCap THEN Timescale(Magnitude(n), u[2]) ELSE Malformed)

P_timescale_spaced(n, u) ==
  Piece(<<"$">> \o KwTimescale \o <<" ">> \o n \o <<" ">> \o u[1] \o <<" ">> \o TokEnd \o <<"\n">>,
        IF Len(n) <= TimescaleCap THEN Timescale(Magnitude(n), u[2]) ELSE Malformed)

TimescaleInputs ==
  { <<P_timescale_compact(n, u), P_timescale_spaced(n, u)>> : n \in Magnitudes, u \in TimescaleUnits }
    \cup
  { <<P_timescale_spaced(n, u), P_timescale_compact(n, u)>> : n \in Magnitudes, u \in TimescaleUnits }

InitTimescale == \E fs \in TimescaleInputs : New(fs, Flatten(fs), 0)

SpecTimescale == InitTimescale /\ [][Next]_vars

\* the call that has returned started just after the commands yielded before it,
\* and those are the first commands that the pieces fs spell
AlignedWith(fs) ==
  /\ ret.n0 <= Len(Expected(fs))
  /\ SubSeq(out, 1, ret.n0) = SubSeq(Expected(fs), 1, ret.n0)
  /\ ret.pos0 = IF ret.n0 = 0 THEN 1 ELSE CmdEnds(fs)[ret.n0] + 1

(* C5: a timescale written as "<n><u>" whose word fits the 8-byte buffer   *)
(* and the same timescale written as "<n> <u>" both yield Timescale with   *)
(* the number n and the unit u, so the two commands yielded are equal; the *)
(* cursor is left after the white space byte that ends the "$end".         *)
C5_TimescaleForms ==
  /\ (/\ ret.op = "next" /\ AlignedWith(frags)
      /\ ret.n0 < Len(frags)
      /\ frags[ret.n0 + 1].cmd.tag = "Timescale") =>
       /\ ret.st = "Ok"
       /\ ret.val = frags[ret.n0 + 1].cmd
       /\ pos = CmdEnds(frags)[ret.n0 + 1] + 1
  /\ (/\ onlyNext /\ Len(out) = 2
      /\ \A i \in 1..Len(frags) : frags[i].cmd.tag = "Timescale") =>
       out[1] = out[2]

\* "100ns" and then "100 ns" have both been read as 100 nanoseconds
C5_Witness ==
  /\ onlyNext /\ ret.op = "next" /\ ret.st = "Ok"
  /\ out = <<Timescale(<<"1", "0", "0">>, "NS"), Timescale(<<"1", "0", "0">>, "NS")>>
  /\ WordAt(SkipWs(1) + 1 + Len(KwTimescale)) = <<"1", "0", "0", "n", "s">>

-----------------------------------------------------------------------------
(* Inputs of the header: up to MaxHeaderCmds commands of the header and of *)
(* the body, the last of them possibly malformed.                          *)

MaxHeaderCmds == 3

HeaderCore == {P_enddefinitions, P_scope_a, P_upscope, P_comment, P_dumpvars}

HeaderTail ==
  { P_var_x, P_end, P_timestamp, P_scalar0, P_ws,
    P_timescale_spaced(<<"1", "0", "0">>, <<<<"n", "s">>, "NS">>),
    Piece(<<"$">> \o KwDate \o <<" ", "d", " ">> \o TokEnd, Date(<<"d">>)),
    Piece(<<"$">> \o KwVersion \o <<" ">> \o TokEnd, Version(<<>>)),
    Piece(<<"$", "b", "o", "g", "u", "s", " ">>, Malformed),
    Piece(<<"a", "%", "\n">>, Malformed) }

HeaderInputs ==
  SeqsUpTo(HeaderCore, MaxHeaderCmds)
    \cup {core \o <<t>> : core \in SeqsUpTo(HeaderCore, MaxHeaderCmds - 1), t \in HeaderTail}

InitHeader == \E fs \in HeaderInputs : New(fs, Flatten(fs), 0)

SpecHeader == InitHeader /\ [][Next]_vars

\* the commands parse_header takes into the header
HeaderTags == {"Comment", "Date", "Version", "Timescale"}

\* the commands parse_scope takes between a scope and its upscope
ScopeTags == {"ScopeDef", "VarDef", "Upscope"}

\* the index in cmds of the first command from i on, outside any scope, that
\* is not taken into the header; 0 if there is none; -1 if a scope before it
\* is not closed or holds a command that is not of a scope
RECURSIVE HeaderStop(_, _)
HeaderStop(cmds, i) ==
  IF i > Len(cmds) THEN 0
  ELSE CASE cmds[i].tag \in HeaderTags -> HeaderStop(cmds, i + 1)
         [] cmds[i].tag = "ScopeDef" ->
              IF /\ MatchingUpscope(cmds, i + 1, 1) # 0
                 /\ \A j \in i..MatchingUpscope(cmds, i + 1, 1) : cmds[j].tag \in ScopeTags
              THEN HeaderStop(cmds, MatchingUpscope(cmds, i + 1, 1) + 1)
              ELSE -1
         [] OTHER -> i

\* the pieces before the last one
Front(fs) == SubSeq(fs, 1, Len(fs) - 1)

(* C10: parse_header, reading well-formed commands, stops at the first one *)
(* outside any scope that is not a comment, date, version, timescale or    *)
(* scope: it returns Ok if that is "$enddefinitions $end" and fails with   *)
(* "Unexpected command in header" if it is anything else; if the input     *)
(* ends before such a command it fails with "Unexpected EOF in header".    *)
(* It never returns Ok without having read "$enddefinitions $end" last.    *)
(* If the step on the first command it cannot take fails or panics, it     *)
(* fails with that step's error, or panics.                                *)
C10_HeaderEnds ==
  /\ (ret.op = "parse_header" /\ WellFormed(frags) /\ AlignedWith(frags)) =>
       CASE HeaderStop(Expected(frags), ret.n0 + 1) > 0 ->
              /\ ret.log = SubSeq(Expected(frags), ret.n0 + 1,
                                  HeaderStop(Expected(frags), ret.n0 + 1))
              /\ IF ret.log[Len(ret.log)] = Enddefinitions
                 THEN /\ ret.st = "Ok"
                      /\ pos = CmdEnds(frags)[Len(out)] + 1
                 ELSE /\ ret.st = "Err"
                      /\ ret.err = ParseError("Unexpected command in header")
         [] HeaderStop(Expected(frags), ret.n0 + 1) = 0 ->
              /\ ret.st = "Err"
              /\ ret.err = IF srcEnd = "eof" THEN ParseError("Unexpected EOF in header")
                           ELSE IoError
              /\ ret.log = SubSeq(Expected(frags), ret.n0 + 1, Len(Expected(frags)))
         [] OTHER -> ret.st = "Err"
  /\ (ret.op = "parse_header" /\ ret.st = "Ok") =>
       /\ ret.log # <<>>
       /\ ret.log[Len(ret.log)] = Enddefinitions
       /\ SubSeq(input, pos - Len(P_enddefinitions.bytes), pos - 1) = P_enddefinitions.bytes
  /\ (/\ ret.op = "parse_header" /\ frags # <<>>
      /\ WellFormed(Front(frags)) /\ AlignedWith(Front(frags))
      /\ HeaderStop(Expected(Front(frags)), ret.n0 + 1) = 0) =>
       CASE next(Len(Flatten(Front(frags))) + 1, ret.sim0).st = "Err" ->
              /\ ret.st = "Err"
              /\ ret.err = next(Len(Flatten(Front(frags))) + 1, ret.sim0).err
         [] next(Len(Flatten(Front(frags))) + 1, ret.sim0).st = "Panic" -> ret.st = "Panic"
         [] OTHER -> TRUE

\* a variable declared after a scope has been closed stopped the header
C10_Witness ==
  /\ ret.op = "parse_header" /\ ret.st = "Err"
  /\ ret.err = ParseError("Unexpected command in header")
  /\ Len(ret.log) = 3
  /\ ret.log[1].tag = "ScopeDef" /\ ret.log[2].tag = "Upscope" /\ ret.log[3].tag = "VarDef"

-----------------------------------------------------------------------------
(* C11, as amended: when parse_header returns Ok the cursor is on the byte *)
(* after the white space byte that ends the "$end" of "$enddefinitions     *)
(* $end", one byte further than the "$end" itself; that byte belongs to    *)
(* the header, so no byte of a body command is consumed.  Each call of     *)
(* next() after the header has been read yields the next command written   *)
(* in the body, in order, and None when the body is exhausted.             *)
C11_HeaderLeavesBody ==
  /\ (ret.op = "parse_header" /\ ret.st = "Ok") =>
       /\ pos >= 6
       /\ SubSeq(input, pos - 5, pos - 2) = TokEnd
       /\ whitespace_byte(input[pos - 1])
       /\ (WellFormed(frags) /\ AlignedWith(frags)) =>
            /\ out[Len(out)] = Enddefinitions
            /\ pos = CmdEnds(frags)[Len(out)] + 1
  /\ (/\ ret.op = "next" /\ WellFormed(frags) /\ AlignedWith(frags)
      /\ \E h \in 1..ret.n0 : out[h] = Enddefinitions) =>
       IF ret.n0 < Len(Expected(frags))
       THEN /\ ret.st = "Ok"
            /\ ret.val = Expected(frags)[ret.n0 + 1]
            /\ pos = CmdEnds(frags)[ret.n0 + 1] + 1
       ELSE /\ ret.st # "Ok"
            /\ srcEnd = "eof" => ret.st = "None"

\* the header has been read and the cursor is on the "#" of a timestamp
C11_Witness ==
  /\ ret.op = "parse_header" /\ ret.st = "Ok"
  /\ pos <= Len(input) /\ input[pos] = "#"
  /\ input[pos - 1] = "\n"

\* C11 as written: the cursor is on the byte right after the "$end"
C11_CursorRightAfterEnd ==
  (ret.op = "parse_header" /\ ret.st = "Ok") => SubSeq(input, pos - 4, pos - 1) = TokEnd

-----------------------------------------------------------------------------
(* C12, as amended: a step taken when the input has ended (only white      *)
(* space is left) while a simulation command is open ends the sequence     *)
(* like any other: it returns None, reports no failure and leaves the      *)
(* command open, its Begin unmatched.                                      *)
C12_OpenCommandAtEndIsNone ==
  (/\ ret.op = "next" /\ srcEnd = "eof"
   /\ SkipWs(ret.pos0) > Len(input)
   /\ ret.sim0 # None) =>
    /\ ret.st = "None"
    /\ ret.log = <<>>
    /\ simulation_command = ret.sim0
    /\ lastBE = Some(Begin(ret.sim0[1]))

\* the input ended right after a "$dumpvars" and the sequence has ended
C12_Witness ==
  /\ ret.op = "next" /\ ret.st = "None" /\ srcEnd = "eof"
  /\ ret.sim0 = Some("Dumpvars")
  /\ out = <<Begin("Dumpvars")>>

(* C12 as written: such a step reports a parse failure instead of ending   *)
(* the sequence.                                                           *)
C12_OpenCommandAtEndFails ==
  (/\ ret.op = "next" /\ srcEnd = "eof"
   /\ SkipWs(ret.pos0) > Len(input)
   /\ ret.sim0 # None) =>
    /\ ret.st = "Err"
    /\ ret.err.kind = "Parse"

-----------------------------------------------------------------------------
(* C13: read_token returns the bytes collected when the input ends after   *)
(* at least one byte of a token that fits the buffer, and fails with       *)
(* "Unexpected EOF" only when the input ends before any byte of a token.   *)
C13_TokenEndedByEof ==
  (ret.op = "read_token" /\ srcEnd = "eof" /\ ~WordTerminated(ret.pos0)) =>
    IF WordAt(ret.pos0) = <<>>
    THEN ret.st = "Err" /\ ret.err = ParseError("Unexpected EOF")
    ELSE Len(WordAt(ret.pos0)) <= tokCap =>
           /\ ret.st = "Ok"
           /\ ret.val = WordAt(ret.pos0)

-----------------------------------------------------------------------------
(* Inputs of a scope that is not completed: up to MaxOpenScopeCmds scope,  *)
(* var and upscope commands, then nothing, or one command that does not    *)
(* belong to a scope, or something malformed.                              *)

MaxOpenScopeCmds == 3

ScopeTail ==
  { P_comment, P_timestamp, P_scalar0, P_enddefinitions, P_dumpvars, P_ws,
    Piece(<<"$", "b", "o", "g", "u", "s", " ">>, Malformed),
    Piece(<<"$">> \o KwVar \o <<" ", "w", "i", "r", "e", " ", "x", " ">>, Malformed),
    Piece(<<"a", "%", "\n">>, Malformed) }

OpenScopeInputs ==
  SeqsUpTo(ScopePieces, MaxOpenScopeCmds)
    \cup {core \o <<t>> : core \in SeqsUpTo(ScopePieces, MaxOpenScopeCmds), t \in ScopeTail}

InitOpenScope == \E fs \in OpenScopeInputs : New(fs, Flatten(fs), 0)

SpecOpenScope == InitOpenScope /\ [][NextScope]_vars

\* the index in cmds of the command at which the scope open at index i (depth
\* scopes are open there) ends: its upscope, or the first command before that
\* which does not belong to a scope; 0 if cmds ends first
RECURSIVE ScopeStop(_, _, _)
ScopeStop(cmds, i, depth) ==
  IF i > Len(cmds) THEN 0
  ELSE CASE cmds[i].tag = "ScopeDef" -> ScopeStop(cmds, i + 1, depth + 1)
         [] cmds[i].tag = "Upscope" ->
              IF depth = 1 THEN i ELSE ScopeStop(cmds, i + 1, depth - 1)
         [] cmds[i].tag = "VarDef" -> ScopeStop(cmds, i + 1, depth)
         [] OTHER -> i

(* C14: parse_scope, at any depth of nesting, fails with "Unexpected       *)
(* command in $scope" at the first command before its upscope that is not  *)
(* a scope, var or upscope, and with "Unexpected EOF in $scope" if the     *)
(* input ends before its upscope; a step that fails or panics makes it     *)
(* fail with that step's error, or panic; the failure of a nested scope is *)
(* the failure of the enclosing ones; a failure carries no Scope.          *)
C14_ScopeFailsFast ==
  /\ (ret.op = "parse_scope" /\ WellFormed(frags) /\ AlignedWith(frags)) =>
       CASE ScopeStop(Expected(frags), ret.n0 + 1, 1) = 0 ->
              /\ ret.st = "Err"
              /\ ret.err = IF srcEnd = "eof" THEN ParseError("Unexpected EOF in $scope")
                           ELSE IoError
              /\ ret.log = SubSeq(Expected(frags), ret.n0 + 1, Len(Expected(frags)))
         [] Expected(frags)[ScopeStop(Expected(frags), ret.n0 + 1, 1)] # Upscope ->
              /\ ret.st = "Err"
              /\ ret.err = ParseError("Unexpected command in $scope")
              /\ ret.log = SubSeq(Expected(frags), ret.n0 + 1,
                                  ScopeStop(Expected(frags), ret.n0 + 1, 1))
         [] OTHER -> ret.st = "Ok"
  /\ (/\ ret.op = "parse_scope" /\ frags # <<>>
      /\ WellFormed(Front(frags)) /\ AlignedWith(Front(frags))
      /\ ScopeStop(Expected(Front(frags)), ret.n0 + 1, 1) = 0) =>
       CASE next(Len(Flatten(Front(frags))) + 1, ret.sim0).st = "Err" ->
              /\ ret.st = "Err"
              /\ ret.err = next(Len(Flatten(Front(frags))) + 1, ret.sim0).err
         [] next(Len(Flatten(Front(frags))) + 1, ret.sim0).st = "Panic" -> ret.st = "Panic"
         [] OTHER -> TRUE
  /\ (ret.op = "parse_scope" /\ ret.st # "Ok") => ret.val = NoVal

\* a comment inside a scope nested in the scope being built stopped it
C14_Witness ==
  /\ ret.op = "parse_scope" /\ ret.st = "Err"
  /\ ret.err = ParseError("Unexpected command in $scope")
  /\ ret.n0 = 1
  /\ Len(ret.log) = 3
  /\ ret.log[1].tag = "VarDef" /\ ret.log[2].tag = "ScopeDef" /\ ret.log[3].tag = "Comment"

-----------------------------------------------------------------------------
(* C15: simulation_command is None in a new parser; a step that yields     *)
(* Begin(k) sets it to Some(k), a step that yields End clears it, and      *)
(* every other step (any other command, the end of the sequence, an error) *)
(* leaves it as it was; parse_header changes it only through such steps.   *)
(* So in every state it is Some(k) exactly when the last Begin/End command *)
(* yielded was Begin(k).                                                   *)
C15_OpenCommandState ==
  /\ simulation_command =
       IF lastBE # None /\ lastBE[1].tag = "Begin" THEN Some(lastBE[1].c) ELSE None
  /\ ret.op = "new" => simulation_command = None
  /\ ret.op = "next" =>
       CASE ret.st = "Ok" /\ ret.val.tag = "Begin" -> simulation_command = Some(ret.val.c)
         [] ret.st = "Ok" /\ ret.val.tag = "End" -> simulation_command = None
         [] OTHER -> simulation_command = ret.sim0
  /\ (ret.op = "parse_header"
        /\ \A i \in 1..Len(ret.log) : ret.log[i].tag \notin {"Begin", "End"}) =>
       simulation_command = ret.sim0

\* a step failed while a simulation command was open, and it is still open
C15_Witness ==
  /\ ret.op = "next" /\ ret.st = "Err"
  /\ ret.sim0 = Some("Dumpoff")
  /\ simulation_command = Some("Dumpoff")
  /\ KeywordAt(ret.pos0, <<"b", "o", "g", "u", "s">>)

-----------------------------------------------------------------------------
(* Inputs of a timescale that may be wrong: the keyword, then up to        *)
(* MaxTimescaleWords words, each a number, a unit, both, neither or        *)
(* "$end", each followed by a space.                                       *)

MaxTimescaleWords == 3

TimescaleWords ==
  { <<"1", "0">>, <<"1", "0", "n", "s">>, <<"1", "z", "z">>, <<"n", "s">>, <<"z", "z">>, TokEnd }

TimescaleWordInputs ==
  { <<Piece(<<"$">> \o KwTimescale \o <<" ">>, Text)>>
      \o [i \in 1..Len(ws) |-> Piece(ws[i] \o <<" ">>, Text)] :
      ws \in SeqsUpTo(TimescaleWords, MaxTimescaleWords) }

InitTimescaleWords == \E fs \in TimescaleWordInputs : New(fs, Flatten(fs), 0)

SpecTimescaleWords == InitTimescaleWords /\ [][Next]_vars

\* the number of digits a word begins with
DigitPrefix(w) == Max({k \in 0..Len(w) : \A i \in 1..k : w[i] \in Digits})

\* the index after the keyword read from p, and after one and two more words
TsWord1(p) == AfterWord(SkipWs(p) + 1)
TsWord2(p) == AfterWord(TsWord1(p))
TsWord3(p) == AfterWord(TsWord2(p))

\* the first word holds the unit as well
TsCompact(p) == DigitPrefix(WordAt(TsWord1(p))) < Len(WordAt(TsWord1(p)))

\* the number, the unit and the closing word of the timescale written at p
TsNumber(p) == SubSeq(WordAt(TsWord1(p)), 1, DigitPrefix(WordAt(TsWord1(p))))
TsUnit(p) ==
  IF TsCompact(p)
  THEN SubSeq(WordAt(TsWord1(p)), DigitPrefix(WordAt(TsWord1(p))) + 1, Len(WordAt(TsWord1(p))))
  ELSE WordAt(TsWord2(p))
TsClosing(p) == IF TsCompact(p) THEN WordAt(TsWord2(p)) ELSE WordAt(TsWord3(p))

\* the words of the timescale written at p are all there, each ended by white space
TsWritten(p) ==
  /\ KeywordAt(p, KwTimescale)
  /\ WordAt(TsWord1(p)) # <<>> /\ WordTerminated(TsWord1(p))
  /\ WordAt(TsWord2(p)) # <<>> /\ WordTerminated(TsWord2(p))
  /\ ~TsCompact(p) => WordAt(TsWord3(p)) # <<>> /\ WordTerminated(TsWord3(p))

TsNumberValid(p) == TsNumber(p) # <<>>
TsUnitValid(p) == \E u \in TimescaleUnits : u[1] = TsUnit(p)

(* C16, as amended: for a "$timescale" command the trailing "$end" is      *)
(* required first: if the word after the number and the unit is not "$end" *)
(* the step fails with "Expected $end", whatever the number and the unit   *)
(* are; if it is "$end", a number that is not an integer fails with        *)
(* "Invalid number", and with a valid number a unit outside fs, ps, ns,    *)
(* us, ms, s fails with "Invalid keyword".                                 *)
C16_EndRequiredFirst ==
  (ret.op = "next" /\ TsWritten(ret.pos0)) =>
    CASE TsClosing(ret.pos0) # TokEnd ->
           ret.st = "Err" /\ ret.err = ParseError("Expected $end")
      [] ~TsNumberValid(ret.pos0) ->
           ret.st = "Err" /\ ret.err = ParseError("Invalid number")
      [] ~TsUnitValid(ret.pos0) ->
           ret.st = "Err" /\ ret.err = ParseError("Invalid keyword")
      [] OTHER ->
           ret.st = "Ok" /\ ret.val.tag = "Timescale" /\ ret.val.n = Magnitude(TsNumber(ret.pos0))

\* a timescale with an unknown unit and no "$end" failed with "Expected $end"
C16_Witness ==
  /\ ret.op = "next" /\ TsWritten(ret.pos0)
  /\ ret.err = ParseError("Expected $end")
  /\ TsNumberValid(ret.pos0) /\ ~TsUnitValid(ret.pos0)

(* C16 as written: a number that is not an integer fails with "Invalid     *)
(* number", a unit outside the six fails with "Invalid keyword", and       *)
(* "Expected $end" is reported only when both are valid.                   *)
C16_ChecksBeforeEnd ==
  (ret.op = "next" /\ TsWritten(ret.pos0)) =>
    CASE ~TsNumberValid(ret.pos0) ->
           ret.st = "Err" /\ ret.err = ParseError("Invalid number")
      [] ~TsUnitValid(ret.pos0) ->
           ret.st = "Err" /\ ret.err = ParseError("Invalid keyword")
      [] TsClosing(ret.pos0) # TokEnd ->
           ret.st = "Err" /\ ret.err = ParseError("Expected $end")
      [] OTHER -> ret.st = "Ok"

-----------------------------------------------------------------------------
(* Inputs of simulation commands that overlap: up to MaxDumpCmds of        *)
(* "$dumpvars", "$dumpoff", "$dumpall", "$dumpon" and "$end" in any order. *)

MaxDumpCmds == 4

DumpPieces == {P_dumpvars, P_dumpoff, P_dumpall, P_dumpon, P_end}

InitDump == \E fs \in SeqsUpTo(DumpPieces, MaxDumpCmds) : New(fs, Flatten(fs), 0)

SpecDump == InitDump /\ [][Next]_vars

DumpKeywords ==
  { <<KwDumpall, "Dumpall">>, <<KwDumpoff, "Dumpoff">>, <<KwDumpon, "Dumpon">>,
    <<KwDumpvars, "Dumpvars">> }

\* how many commands of out have the tag
CountOf(tag) == Cardinality({i \in 1..Len(out) : out[i].tag = tag})

(* C17: a "$dumpall", "$dumpoff", "$dumpon" or "$dumpvars" step yields     *)
(* Begin(k2) and makes k2 the open command whether or not a command k1 was *)
(* open before it; an End yielded later is End(k) for the Begin(k) last    *)
(* yielded before it with no End between them, so a Begin that another     *)
(* Begin follows is never matched, and an "$end" after that End fails with *)
(* "Unmatched $end"; the Ends yielded are never more than the Begins.      *)
C17_BeginOverwrites ==
  /\ \A d \in DumpKeywords :
       (ret.op = "next" /\ KeywordAt(ret.pos0, d[1])) =>
         /\ ret.st = "Ok" /\ ret.val = Begin(d[2])
         /\ simulation_command = Some(d[2])
  /\ \A j \in 1..Len(out) :
       out[j].tag = "End" =>
         \E i \in 1..(j - 1) :
           /\ out[i] = Begin(out[j].c)
           /\ \A m \in (i + 1)..(j - 1) : out[m].tag \notin {"Begin", "End"}
  /\ (ret.op = "next" /\ KeywordAt(ret.pos0, KwEnd)
        /\ ret.n0 >= 1 /\ out[ret.n0].tag = "End") =>
       ret.st = "Err" /\ ret.err = ParseError("Unmatched $end")
  /\ CountOf("End") <= CountOf("Begin")

\* two Begins, the End of the second, and a second "$end" that failed
C17_Witness ==
  /\ onlyNext /\ ret.op = "next"
  /\ ret.st = "Err" /\ ret.err = ParseError("Unmatched $end")
  /\ out = <<Begin("Dumpvars"), Begin("Dumpoff"), End("Dumpoff")>>

-----------------------------------------------------------------------------
(* Inputs of a header with repetitions: up to MaxHeaderBlocks blocks, each *)
(* a whole top-level scope, a comment or a timescale, then the end of the  *)
(* header.                                                                 *)

MaxHeaderBlocks == 3

P_comment_c == Piece(<<"$">> \o KwComment \o <<"\n", "c", "\n">> \o TokEnd \o <<"\n">>,
                     Comment(<<"c">>))

HeaderBlocks ==
  { <<P_scope_a, P_var_x, P_upscope>>,
    <<P_scope_b, P_upscope>>,
    <<P_comment>>,
    <<P_comment_c>>,
    <<P_timescale_spaced(<<"1", "0", "0">>, <<<<"n", "s">>, "NS">>)>>,
    <<P_timescale_compact(<<"1">>, <<<<"p", "s">>, "PS">>)>> }

RECURSIVE Concat(_)
Concat(ss) == IF ss = <<>> THEN <<>> ELSE Head(ss) \o Concat(Tail(ss))

RepeatedHeaderInputs ==
  { Concat(bs) \o <<P_enddefinitions>> : bs \in SeqsUpTo(HeaderBlocks, MaxHeaderBlocks) }

InitRepeatedHeader == \E fs \in RepeatedHeaderInputs : New(fs, Flatten(fs), 0)

SpecRepeatedHeader == InitRepeatedHeader /\ [][Next]_vars

\* the indices from..to of cmds whose command has the tag and is outside any
\* scope opened from index from on
TopLevel(cmds, from, to, tag) ==
  { i \in from..to :
      /\ cmds[i].tag = tag
      /\ Cardinality({j \in from..(i - 1) : cmds[j].tag = "ScopeDef"})
           = Cardinality({j \in from..(i - 1) : cmds[j].tag = "Upscope"}) }

(* C18: parse_header, reading any number of whole top-level scopes,        *)
(* comments and timescales and then "$enddefinitions $end", returns Ok;    *)
(* the header holds the text of the last comment and the last timescale    *)
(* read, None for what was not written, and the tree of the last           *)
(* top-level scope read, the scopes before it being dropped with all they  *)
(* hold; if no scope was written it holds the default scope, which has no  *)
(* children.                                                               *)
C18_LastOccurrenceKept ==
  (/\ ret.op = "parse_header" /\ WellFormed(frags) /\ AlignedWith(frags)
   /\ HeaderStop(Expected(frags), ret.n0 + 1) > 0
   /\ Expected(frags)[HeaderStop(Expected(frags), ret.n0 + 1)] = Enddefinitions) =>
    /\ ret.st = "Ok"
    /\ ret.val.comment =
         IF TopLevel(Expected(frags), ret.n0 + 1, Len(out), "Comment") = {} THEN None
         ELSE Some(Expected(frags)[Max(TopLevel(Expected(frags), ret.n0 + 1, Len(out),
                                                "Comment"))].text)
    /\ ret.val.date = None /\ ret.val.version = None
    /\ ret.val.timescale =
         IF TopLevel(Expected(frags), ret.n0 + 1, Len(out), "Timescale") = {} THEN None
         ELSE Some(<<Expected(frags)[Max(TopLevel(Expected(frags), ret.n0 + 1, Len(out),
                                                  "Timescale"))].n,
                     Expected(frags)[Max(TopLevel(Expected(frags), ret.n0 + 1, Len(out),
                                                  "Timescale"))].unit>>)
    /\ IF TopLevel(Expected(frags), ret.n0 + 1, Len(out), "ScopeDef") = {}
       THEN ret.val.scope = DefaultScope /\ ret.val.scope.children = <<>>
       ELSE CommandsOf(ret.val.scope)
              = SubSeq(Expected(frags),
                       Max(TopLevel(Expected(frags), ret.n0 + 1, Len(out), "ScopeDef")),
                       MatchingUpscope(Expected(frags),
                                       Max(TopLevel(Expected(frags), ret.n0 + 1, Len(out),
                                                    "ScopeDef")) + 1, 1))

\* a scope with a variable, then an empty scope: the header holds the second
C18_Witness ==
  /\ ret.op = "parse_header" /\ ret.st = "Ok"
  /\ Len(ret.log) = 6
  /\ ret.log[1] = ScopeDef("Module", <<"a">>) /\ ret.log[2].tag = "VarDef"
  /\ ret.log[4] = ScopeDef("Task", <<"b", "b">>)
  /\ ret.val.scope = Scope("Task", <<"b", "b">>, <<>>)

====
